---- MODULE Spec2Model ----
(***************************************************************************)
(* Per-session credential, connection and guest-data isolation of the      *)
(* multi-tenant dashboard (src/app.js, the revision at lines 375-1041).    *)
(*                                                                         *)
(* A request handler runs atomically up to its next `await`; a handler     *)
(* that suspends keeps its position and locals in a request slot (reqs)    *)
(* and is resumed by a later step, so other handlers interleave exactly at *)
(* the awaits of the code.                                                 *)
(***************************************************************************)
EXTENDS Naturals, Sequences, FiniteSets, TLC

\* ------------------------------------------------------------------ bounds
\* connection objects alive at the same time (mongoose.createConnection)
MaxConns == 2
\* request handlers suspended at an await at the same time
MaxReqs == 2
\* health-log entries one store holds
MaxLogs == 1
\* deployment records one store holds
MaxDeploys == 1

\* ------------------------------------------------------------ value spaces
\* Session identities are issued by express-session: strings of one fixed
\* length over an alphabet without ':'; two identities share a prefix but
\* neither is a prefix of the other.
SessionIds == { <<"s", "1">>, <<"s", "2">> }

\* Backing-store addresses; like every mongodb URI they contain ':'.
Addrs == { <<"m", ":", "x">>, <<"m", ":", "y">> }

ApiKeys == { <<"k1">>, <<"k2">> }

EMPTY == << >>

GUEST_CONFIG ==
    [ defined |-> TRUE, MONGO_URI |-> EMPTY, API_KEY |-> <<"guest-api-key-12345">>,
      RENDER_API_KEY |-> EMPTY, PORT |-> <<"3000">> ]

\* req.session.config === undefined
NoConfig ==
    [ defined |-> FALSE, MONGO_URI |-> EMPTY, API_KEY |-> EMPTY,
      RENDER_API_KEY |-> EMPTY, PORT |-> EMPTY ]

\* A session without isGuest and without config (a fresh or destroyed one).
NoSession == [ isGuest |-> "undefined", config |-> NoConfig ]

\* ---------------------------------------------------------- uploaded blobs
\* An uploaded .env file: a sequence of KEY=VALUE assignments.
Line(k, v) == [ key |-> k, val |-> v ]

Blobs ==
    { << >>,
      << Line("MONGO_URI", <<"m", ":", "x">>) >>,
      << Line("MONGO_URI", EMPTY), Line("API_KEY", <<"k1">>) >>,
      << Line("MONGO_URI", <<"m", ":", "x">>), Line("API_KEY", <<"k1">>) >>,
      << Line("API_KEY", <<"k2">>), Line("MONGO_URI", <<"m", ":", "x">>) >>,
      << Line("MONGO_URI", <<"m", ":", "x">>), Line("API_KEY", <<"k1">>),
         Line("MONGO_URI", <<"m", ":", "y">>) >>,
      << Line("API_KEY", <<"k1">>), Line("MONGO_URI", <<"m", ":", "x">>),
         Line("API_KEY", EMPTY) >> }

\* req.file of the multipart request: absent, or a buffer holding a blob
NoFile == [ present |-> FALSE, buffer |-> << >> ]
Files == { NoFile } \cup { [ present |-> TRUE, buffer |-> b ] : b \in Blobs }

MaxOf(S) == CHOOSE x \in S : \A y \in S : y <= x

\* a parser in which the first assignment of a key wins
parseEnvFirstWins(buffer) ==
    [ k \in { "MONGO_URI", "API_KEY", "RENDER_API_KEY", "PORT" } |->
        LET at == { i \in DOMAIN buffer : buffer[i].key = k }
        IN  IF at = {} THEN [ defined |-> FALSE, val |-> EMPTY ]
            ELSE [ defined |-> TRUE, val |-> buffer[CHOOSE i \in at : \A j \in at : i <= j].val ] ]

\* dotenv.parse: one entry per key, the last assignment of a key wins; a key
\* that is never assigned is undefined.
parseEnvContent(buffer) ==
    [ k \in { "MONGO_URI", "API_KEY", "RENDER_API_KEY", "PORT" } |->
        LET at == { i \in DOMAIN buffer : buffer[i].key = k }
        IN  IF at = {} THEN [ defined |-> FALSE, val |-> EMPTY ]
            ELSE [ defined |-> TRUE, val |-> buffer[MaxOf(at)].val ] ]

\* JavaScript truthiness of a parsed value: undefined and "" are falsy.
Truthy(v) == v.defined /\ v.val # EMPTY

\* value || fallback
OrElse(v, fallback) == IF Truthy(v) THEN v.val ELSE fallback

\* ------------------------------------------------------------------- state
VARIABLES
    sessions,        \* the session store: session identity -> session record
    guestStorage,    \* Map sessionId -> dataset object (a heap reference, 0 = no entry)
    heap,            \* the dataset objects guestStorage refers to
    connectionPool,  \* Map connectionKey -> connection, in insertion order
    conns,           \* the connection objects, by handle
    reqs,            \* the handlers suspended at an await
    PIPELINE_STATUS, \* process-wide pipeline status
    db,              \* the backing store behind each address
    timers,          \* the pending setTimeout callbacks of POST /deploy
    last             \* the latest step of a handler: route, session, response, the
                     \* connection getConnection gave it (0 = none), whether
                     \* that connection came from the cache, the mapping and
                     \* the arguments of a checkServerHealth call, and the
                     \* keys a run of the sweep deleted

vars == << sessions, guestStorage, heap, connectionPool, conns, reqs,
           PIPELINE_STATUS, db, timers, last >>

Slots == 1 .. MaxReqs
Handles == 1 .. MaxConns
Refs == 1 .. Cardinality(SessionIds)

\* a seed in which both demo targets are Up
SeedDatasetAllUp ==
    [ servers |-> << [ name |-> "Demo Server 1", url |-> "https://httpstat.us/200", status |-> "Up" ],
                    [ name |-> "Demo Server 2", url |-> "https://httpstat.us/500", status |-> "Up" ] >>,
      logs |-> << >>, deployments |-> << >> ]

\* the object literal getGuestData stores for a new session
SeedDataset ==
    [ servers |-> << [ name |-> "Demo Server 1", url |-> "https://httpstat.us/200", status |-> "Up" ],
                    [ name |-> "Demo Server 2", url |-> "https://httpstat.us/500", status |-> "Down" ] >>,
      logs |-> << [ statuses |-> << [ name |-> "Demo Server 1", status |-> "Up", reason |-> "OK 200" ],
                                   [ name |-> "Demo Server 2", status |-> "Down", reason |-> "HTTP 500" ] >> ] >>,
      deployments |-> << [ version |-> "v1.0.0", status |-> "success", provider |-> "manual",
                          project |-> "Demo Project", environment |-> "production" ] >> ]

\* a heap cell no Map entry refers to
Free == [ servers |-> << >>, logs |-> << >>, deployments |-> << >> ]

\* a database no tenant has written to yet
EmptyStore == [ servers |-> {}, logs |-> << >>, deployments |-> << >> ]

\* a handle no connection object has
NoConn == [ key |-> EMPTY, state |-> "none" ]

\* the status mapping `let statuses = {}` starts with
NoStatuses == [ n \in {} |-> "" ]

IdleReq ==
    [ pc |-> "idle", route |-> "", sid |-> EMPTY, key |-> EMPTY, uri |-> EMPTY, conn |-> 0, it |-> 0,
      dirty |-> FALSE, file |-> NoFile, body |-> "", servers |-> << >>, statuses |-> NoStatuses ]

\* the arguments of a checkServerHealth call that probes nothing
NoRun == [ isGuest |-> FALSE, connection |-> EMPTY, find |-> TRUE, order |-> << >>,
           probe |-> [ n \in {} |-> "" ], saveFails |-> {}, logSave |-> TRUE ]

NoEvent == [ route |-> "", sid |-> EMPTY, result |-> "", conn |-> 0, cached |-> FALSE,
             statuses |-> NoStatuses, run |-> NoRun, evicted |-> {} ]

Init ==
    /\ sessions = [ s \in SessionIds |-> NoSession ]
    /\ guestStorage = [ s \in SessionIds |-> 0 ]
    /\ heap = [ r \in Refs |-> Free ]
    /\ connectionPool = << >>
    /\ conns = [ h \in Handles |-> NoConn ]
    /\ reqs = [ r \in Slots |-> IdleReq ]
    /\ PIPELINE_STATUS = "success"
    /\ db = [ a \in Addrs |-> EmptyStore ]
    /\ timers = {}
    /\ last = NoEvent

\* ---------------------------------------------------------------- helpers
\* seq without the entries at the indices in D, order kept (Map.delete)
Without(seq, D) ==
    LET keep == DOMAIN seq \ D
        at(k) == CHOOSE i \in keep : Cardinality({ j \in keep : j < i }) = k - 1
    IN  [ k \in 1 .. Cardinality(keep) |-> seq[at(k)] ]

\* A suspended for..of over connectionPool.entries() is a live iterator: when
\* entries before its position are deleted, its position moves with the rest.
ShiftIt(rq, D) ==
    [ r \in Slots |->
        IF rq[r].pc = "closing"
        THEN [ rq[r] EXCEPT !.it = rq[r].it - Cardinality({ j \in D : j < rq[r].it }) ]
        ELSE rq[r] ]

HasFreeSlot == \E r \in Slots : reqs[r].pc = "idle"
FreeSlot == CHOOSE r \in Slots : reqs[r].pc = "idle" /\ \A q \in Slots : q < r => reqs[q].pc # "idle"

InFlight(s) == \E r \in Slots : reqs[r].pc # "idle" /\ reqs[r].sid = s

\* ---------------------------------------------------------------- registry
\* a key built from the address alone
connectionKeyByAddress(sessionId, mongoUri) == <<":">> \o mongoUri

\* a key built from the part of the identity the log lines print
connectionKeyShortId(sessionId, mongoUri) == SubSeq(sessionId, 1, 1) \o <<":">> \o mongoUri

\* `${sessionId}:${mongoUri}`
connectionKey(sessionId, mongoUri) == sessionId \o <<":">> \o mongoUri

\* a prefix test that never matches
startsWithNever(key, prefix) == FALSE

\* a prefix test that compares the first character only
startsWithFirstChar(key, prefix) ==
    /\ Len(prefix) <= Len(key)
    /\ key[1] = prefix[1]

\* String.prototype.startsWith
startsWith(key, prefix) ==
    /\ Len(prefix) <= Len(key)
    /\ SubSeq(key, 1, Len(prefix)) = prefix

\* mongoose Connection.readyState
readyState(h) ==
    CASE conns[h].state = "connected" -> 1
      [] conns[h].state = "connecting" -> 2
      [] conns[h].state = "closing" -> 3
      [] OTHER -> 0

\* A connection object that was closed, or never got established, and that
\* neither the Map, a suspended handler nor a pending timer callback refers
\* to any more is garbage.
Garbage(cn, pool, rq, tm, h) ==
    /\ cn[h].state \in { "closed", "failed" }
    /\ \A i \in DOMAIN pool : pool[i].conn # h
    /\ \A r \in Slots : rq[r].pc = "idle" \/ rq[r].conn # h
    /\ \A t \in tm : t.conn # h

Collect(cn, pool, rq) ==
    [ h \in Handles |-> IF Garbage(cn, pool, rq, timers, h) THEN NoConn ELSE cn[h] ]

\* the handle of the object mongoose.createConnection returns
NewConn == CHOOSE h \in Handles : conns[h] = NoConn /\ \A g \in Handles : g < h => conns[g] # NoConn

\* connectionPool.has(key) / .get(key): the index of the entry, 0 when absent
PoolIndex(pool, key) ==
    IF \E i \in DOMAIN pool : pool[i].key = key
    THEN CHOOSE i \in DOMAIN pool : pool[i].key = key
    ELSE 0

\* connectionPool.set(key, conn): an existing key keeps its place
PoolSet(pool, key, h) ==
    IF PoolIndex(pool, key) # 0
    THEN [ pool EXCEPT ![PoolIndex(pool, key)] = [ key |-> key, conn |-> h ] ]
    ELSE Append(pool, [ key |-> key, conn |-> h ])

\* a reuse test that takes every cached entry for a live one
CacheHitAny(key) == PoolIndex(connectionPool, key) # 0

\* a reuse test that takes a connecting entry for a live one
CacheHitConnecting(key) ==
    /\ PoolIndex(connectionPool, key) # 0
    /\ readyState(connectionPool[PoolIndex(connectionPool, key)].conn) = 2

\* getConnection, the reuse path: a cached entry whose readyState is 1
CacheHit(key) ==
    /\ PoolIndex(connectionPool, key) # 0
    /\ readyState(connectionPool[PoolIndex(connectionPool, key)].conn) = 1

\* a dead-entry path that leaves the entry where it is
DeadEntryKept(key) == {}

\* getConnection, the dead-entry path: the indices connectionPool.delete removes
DeadEntry(key) ==
    IF PoolIndex(connectionPool, key) # 0 /\ ~CacheHit(key)
    THEN { PoolIndex(connectionPool, key) }
    ELSE {}

\* ------------------------------------------------------------- guest store
\* guestStorage.delete(sessionId): the dataset object becomes garbage
FreeRef(h, gs, s) == IF gs[s] = 0 THEN h ELSE [ h EXCEPT ![gs[s]] = Free ]

\* one dataset object handed to every session
SharedRef == CHOOSE r \in Refs : \A q \in Refs : r <= q

\* the object a new object literal evaluates to: one no Map entry refers to
NewRef == CHOOSE r \in Refs : /\ \A s \in SessionIds : guestStorage[s] # r
                              /\ \A q \in Refs : q < r => \E s \in SessionIds : guestStorage[s] = q

\* getGuestData(sessionId): the Map after the call
getGuestData(sessionId) ==
    IF guestStorage[sessionId] = 0
    THEN [ gs |-> [ guestStorage EXCEPT ![sessionId] = NewRef ],
           hp |-> [ heap EXCEPT ![NewRef] = SeedDataset ] ]
    ELSE [ gs |-> guestStorage, hp |-> heap ]

\* ---------------------------------------------------------------- sessions
\* A request carries the identity of a stored session, or one the session
\* middleware has just generated: an identity nothing is keyed by yet.
FreshId(s) ==
    /\ guestStorage[s] = 0
    /\ \A i \in DOMAIN connectionPool : ~startsWith(connectionPool[i].key, s)
    /\ ~InFlight(s)

CanRequest(s) == sessions[s] # NoSession \/ FreshId(s)

\* a gate that lets every request through
requireAuthOpen(session) == "next"

\* a gate that lets credentialed sessions through and no others
requireAuthCredentialsOnly(session) ==
    IF session.isGuest = "false" /\ session.config.defined THEN "next"
    ELSE "redirect:/?error=upload_required"

requireAuth(session) ==
    IF session.isGuest = "false" /\ session.config.defined THEN "next"
    ELSE IF session.isGuest = "true" THEN "next"
    ELSE "redirect:/?error=upload_required"

\* authenticate: the key the x-api-key header is compared with
sessionApiKey(session) ==
    IF session.config.defined THEN session.config.API_KEY ELSE GUEST_CONFIG.API_KEY

authenticate(session, apiKey) ==
    IF apiKey = sessionApiKey(session) THEN "next" ELSE "403:Forbidden: Invalid API Key"

Event(route, s, result) == [ NoEvent EXCEPT !.route = route, !.sid = s, !.result = result ]

\* a response that changes nothing but the latest event
Reply(ev) ==
    /\ last' = ev
    /\ UNCHANGED << sessions, guestStorage, heap, connectionPool, conns, reqs, PIPELINE_STATUS, db, timers >>

\* express-session: the request's session is written to the store when the
\* response ends, if the handler changed it
SaveSession(s, sess, dirty) == IF dirty THEN [ sessions EXCEPT ![s] = sess ] ELSE sessions

\* a destroy that leaves the record in the store
KeepSession(s) == sessions

\* req.session.destroy()
DestroySession(s) == [ sessions EXCEPT ![s] = NoSession ]

\* getConnection from the cache miss to `await conn.asPromise()`: a dead entry
\* is deleted, a new connection object is created and the handler suspends
AwaitConnection(route, s, uri, dirty, file, body) ==
    /\ \E h \in Handles : conns[h] = NoConn
    /\ HasFreeSlot
    /\ connectionPool' = Without(connectionPool, DeadEntry(connectionKey(s, uri)))
    /\ conns' = [ conns EXCEPT ![NewConn] = [ key |-> connectionKey(s, uri), state |-> "connecting" ] ]
    /\ reqs' = [ ShiftIt(reqs, DeadEntry(connectionKey(s, uri))) EXCEPT ![FreeSlot] =
                   [ IdleReq EXCEPT !.pc = "connecting", !.route = route, !.sid = s,
                                    !.key = connectionKey(s, uri), !.uri = uri,
                                    !.conn = NewConn,
                                    !.dirty = dirty, !.file = file, !.body = body ] ]
    /\ last' = [ Event(route, s, "pending") EXCEPT !.conn = NewConn ]

\* ------------------------------------------------------- POST /upload-env
\* a validation that asks for the address only
ValidEnvUriOnly(config) == Truthy(config["MONGO_URI"])

\* the required fields of the parsed file
ValidEnv(config) == Truthy(config["MONGO_URI"]) /\ Truthy(config["API_KEY"])

\* an assignment that stores the uploaded bundle without leaving guest mode
UploadedSessionAsGuest(config) ==
    [ isGuest |-> "true",
      config |-> [ defined |-> TRUE,
                   MONGO_URI |-> config["MONGO_URI"].val,
                   API_KEY |-> config["API_KEY"].val,
                   RENDER_API_KEY |-> OrElse(config["RENDER_API_KEY"], EMPTY),
                   PORT |-> OrElse(config["PORT"], <<"3000">>) ] ]

\* what the handler assigns to req.session
UploadedSession(config) ==
    [ isGuest |-> "false",
      config |-> [ defined |-> TRUE,
                   MONGO_URI |-> config["MONGO_URI"].val,
                   API_KEY |-> config["API_KEY"].val,
                   RENDER_API_KEY |-> OrElse(config["RENDER_API_KEY"], EMPTY),
                   PORT |-> OrElse(config["PORT"], <<"3000">>) ] ]

Upload(s, file) ==
    /\ CanRequest(s)
    /\ LET config == parseEnvContent(file.buffer)
           sess == UploadedSession(config)
           key == connectionKey(s, config["MONGO_URI"].val)
           ev(result) == Event("POST /upload-env", s, result)
       IN  IF ~file.present
           THEN Reply(ev("redirect:/?error=no_file"))
           ELSE IF ~ValidEnv(config)
           THEN Reply(ev("redirect:/?error=invalid_env"))
           ELSE IF CacheHit(key)
           THEN /\ sessions' = SaveSession(s, sess, sess # sessions[s])
                /\ last' = [ ev("redirect:/dashboard") EXCEPT
                               !.conn = connectionPool[PoolIndex(connectionPool, key)].conn,
                               !.cached = TRUE ]
                /\ UNCHANGED << guestStorage, heap, connectionPool, conns, reqs, PIPELINE_STATUS, db, timers >>
           ELSE /\ AwaitConnection("POST /upload-env", s, config["MONGO_URI"].val, sess # sessions[s], file, "")
                /\ UNCHANGED << sessions, guestStorage, heap, PIPELINE_STATUS, db, timers >>

\* --------------------------------------------------------- POST /guest-mode
GuestMode(s) ==
    /\ CanRequest(s)
    /\ sessions' = [ sessions EXCEPT ![s] = [ isGuest |-> "true", config |-> GUEST_CONFIG ] ]
    /\ guestStorage' = getGuestData(s).gs
    /\ heap' = getGuestData(s).hp
    /\ last' = Event("POST /guest-mode", s, "redirect:/dashboard")
    /\ UNCHANGED << connectionPool, conns, reqs, PIPELINE_STATUS, db, timers >>

\* -------------------------------------------------------------- GET /logout
\* the next entry of the for..of whose key starts with the session identity
NextMatch(pool, s, from) ==
    LET hits == { i \in DOMAIN pool : i >= from /\ startsWith(pool[i].key, s) }
    IN  IF hits = {} THEN 0 ELSE CHOOSE i \in hits : \A j \in hits : i <= j

Logout(s) ==
    /\ CanRequest(s)
    /\ guestStorage' = [ guestStorage EXCEPT ![s] = 0 ]
    /\ heap' = FreeRef(heap, guestStorage, s)
    /\ LET i == NextMatch(connectionPool, s, 1)
       IN  IF i = 0
           THEN /\ sessions' = DestroySession(s)
                /\ last' = Event("GET /logout", s, "redirect:/")
                /\ UNCHANGED << connectionPool, conns, reqs, PIPELINE_STATUS, db, timers >>
           ELSE /\ HasFreeSlot
                /\ conns' = [ conns EXCEPT ![connectionPool[i].conn].state = "closing" ]
                /\ reqs' = [ reqs EXCEPT ![FreeSlot] =
                               [ IdleReq EXCEPT !.pc = "closing", !.route = "GET /logout",
                                                !.sid = s, !.key = connectionPool[i].key,
                                                !.conn = connectionPool[i].conn, !.it = i + 1 ] ]
                /\ last' = [ Event("GET /logout", s, "pending") EXCEPT !.conn = connectionPool[i].conn ]
                /\ UNCHANGED << sessions, connectionPool, PIPELINE_STATUS, db, timers >>

\* `await conn.close()` settles: on success the key is deleted; the loop goes on
LogoutResume(r, ok) ==
    /\ reqs[r].pc = "closing"
    /\ LET req == reqs[r]
           D == IF ok /\ PoolIndex(connectionPool, req.key) # 0
                THEN { PoolIndex(connectionPool, req.key) } ELSE {}
           pool1 == Without(connectionPool, D)
           rq1 == ShiftIt(reqs, D)
           conns1 == [ conns EXCEPT ![req.conn].state =
                         IF ok THEN "closed"
                         ELSE IF conns[req.conn].state = "closing" THEN "disconnected"
                         ELSE conns[req.conn].state ]
           i == NextMatch(pool1, req.sid, rq1[r].it)
           rq2 == IF i = 0 THEN [ rq1 EXCEPT ![r] = IdleReq ]
                  ELSE [ rq1 EXCEPT ![r] = [ rq1[r] EXCEPT !.key = pool1[i].key,
                                                          !.conn = pool1[i].conn,
                                                          !.it = i + 1 ] ]
       IN  /\ connectionPool' = pool1
           /\ reqs' = rq2
           /\ IF i = 0
              THEN /\ conns' = Collect(conns1, pool1, rq2)
                   /\ sessions' = DestroySession(req.sid)
                   /\ last' = Event("GET /logout", req.sid, "redirect:/")
              ELSE /\ conns' = Collect([ conns1 EXCEPT ![pool1[i].conn].state = "closing" ], pool1, rq2)
                   /\ last' = [ Event("GET /logout", req.sid, "pending") EXCEPT !.conn = pool1[i].conn ]
                   /\ UNCHANGED sessions
    /\ UNCHANGED << guestStorage, heap, PIPELINE_STATUS, db, timers >>

\* --------------------------------------------------------- protected routes
Routes ==
    { "GET /status", "POST /deploy", "POST /servers", "DELETE /servers/:name",
      "POST /logs_delete", "GET /deployments", "GET /render-deployments", "GET /dashboard" }

\* the routes that run the authenticate middleware after requireAuth
NeedsApiKey(route) ==
    route \in { "POST /deploy", "POST /servers", "POST /logs_delete", "GET /deployments" }

\* the x-api-key header: absent (EMPTY) or a key
Headers == ApiKeys \cup { GUEST_CONFIG.API_KEY, EMPTY }

\* the field a route reads from the body or the path (version, name and url,
\* :name): absent ("") or a value
Names == { "svc1" }
Bodies == Names \cup { "" }

\* Everything a route decides before it touches data: the middleware chain,
\* then the checks at the top of the handler, in the handler's order.
Precheck(route, session, apiKey, body) ==
    IF requireAuth(session) # "next" THEN requireAuth(session)
    ELSE IF NeedsApiKey(route) /\ authenticate(session, apiKey) # "next"
    THEN authenticate(session, apiKey)
    ELSE CASE route = "POST /deploy" ->
                IF body = "" THEN "400:Version is required"
                ELSE IF session.isGuest = "true" THEN "403:Cannot deploy in guest mode"
                ELSE "next"
           [] route = "POST /servers" ->
                IF session.isGuest = "true" THEN "403:Cannot add servers in guest mode"
                ELSE IF body = "" THEN "400:Name and URL are required"
                ELSE "next"
           [] route = "DELETE /servers/:name" ->
                IF session.isGuest = "true" THEN "403:Cannot delete servers in guest mode"
                ELSE "next"
           [] route = "POST /logs_delete" ->
                IF session.isGuest = "true" THEN "403:Cannot delete logs in guest mode"
                ELSE "next"
           [] OTHER -> "next"

\* a handler that never takes its guest branch
GuestBranchNever(session) == FALSE

\* `if (req.session.isGuest)` in a handler, before it asks for a connection
GuestBranch(session) == session.isGuest = "true"

\* the guest branch of a read route calls getGuestData
ReadsGuestData(route) == route \in { "GET /status", "GET /deployments", "GET /dashboard" }

\* ------------------------------------------------------ checkServerHealth
\* what `await axios.get(server.url, { timeout: 3000 })` settles with: a 2xx
\* response, or an error with a response, with a code, with a message only,
\* or with none of them
NoResponse == [ status |-> 0, statusText |-> "" ]
Resolved == [ ok |-> TRUE, response |-> NoResponse, code |-> "", message |-> "" ]
HttpError == [ ok |-> FALSE, response |-> [ status |-> 500, statusText |-> "Internal Server Error" ],
               code |-> "ERR_BAD_RESPONSE", message |-> "Request failed with status code 500" ]
Refused == [ ok |-> FALSE, response |-> NoResponse, code |-> "ECONNREFUSED",
             message |-> "connect ECONNREFUSED" ]
ProbeResults == { Resolved, HttpError, Refused }

\* every error axios.get can reject with: each of response, code and message
\* is there or not, and a response has a status text or none
ProbeErrors ==
    { [ ok |-> FALSE, response |-> response, code |-> code, message |-> message ] :
      response \in { NoResponse, [ status |-> 500, statusText |-> "Internal Server Error" ],
                     [ status |-> 404, statusText |-> "" ] },
      code \in { "", "ECONNREFUSED" },
      message \in { "", "connect ECONNREFUSED" } }

\* a catch that looks at the code before the response
ReasonCodeFirst(error) ==
    IF error.code # "" THEN error.code
    ELSE IF error.response # NoResponse
    THEN "HTTP " \o ToString(error.response.status) \o " " \o error.response.statusText
    ELSE IF error.message # "" THEN error.message
    ELSE "Connection failed"

\* the reason the inner catch computes
Reason(error) ==
    IF error.response # NoResponse
    THEN "HTTP " \o ToString(error.response.status) \o " " \o error.response.statusText
    ELSE IF error.code # "" THEN error.code
    ELSE IF error.message # "" THEN error.message
    ELSE "Connection failed"

\* the entry of one target
Probed(result) ==
    IF result.ok THEN [ status |-> "Up", reason |-> "OK 200" ]
    ELSE [ status |-> "Down", reason |-> Reason(result) ]

TargetNames(store) == { x.name : x \in store.servers }

\* the orders Server.find() can return the targets in
Orders(S) == { q \in [ 1 .. Cardinality(S) -> S ] : \A i, j \in DOMAIN q : i # j => q[i] # q[j] }

\* a handler that passes the error on
Rethrow(error) == error

\* a log entry that holds the status of each target without its reason
LogEntryNoReason(statuses) ==
    [ statuses |-> [ n \in DOMAIN statuses |-> [ statuses[n] EXCEPT !.reason = "" ] ] ]

\* new Log({ timestamp: new Date(), statuses })
LogEntry(statuses) == [ statuses |-> statuses ]

\* the outer catch: the error is logged and the function goes on to
\* `return statuses`
Catch(error) == ""

\* a loop without the inner try: the first failing probe leaves it
ProbeUntilFailure(order, statuses, store, run) ==
    LET failing == { i \in DOMAIN order : ~run.probe[order[i]].ok }
        k == IF failing = {} THEN Len(order) + 1 ELSE CHOOSE i \in failing : \A j \in failing : i <= j
        done == { order[i] : i \in 1 .. k - 1 }
    IN  [ statuses |-> [ n \in done |-> Probed(Resolved) ],
          store |-> [ store EXCEPT !.servers =
                        { IF x.name \in done THEN [ x EXCEPT !.status = "Up" ] ELSE x : x \in @ } ],
          error |-> IF failing = {} THEN "" ELSE Reason(run.probe[order[k]]) ]

\* the for..of over the targets: statuses[server.name] is assigned, then the
\* status is saved; a failing save leaves the loop with what is built so far
RECURSIVE ProbeAll(_, _, _, _)
ProbeAll(order, statuses, store, run) ==
    IF order = << >>
    THEN [ statuses |-> statuses, store |-> store, error |-> "" ]
    ELSE LET name == Head(order)
             entry == Probed(run.probe[name])
             st1 == [ n \in DOMAIN statuses \cup { name } |->
                        IF n = name THEN entry ELSE statuses[n] ]
         IN  IF name \in run.saveFails
             THEN [ statuses |-> st1, store |-> store, error |-> "server.save failed" ]
             ELSE ProbeAll(Tail(order), st1,
                           [ store EXCEPT !.servers =
                               { IF x.name = name THEN [ x EXCEPT !.status = entry.status ] ELSE x
                                 : x \in @ } ],
                           run)

\* checkServerHealth(sessionId, isGuest, connection): the mapping it returns,
\* the store after it, and the error it throws ("" when it returns)
checkServerHealth(guestData, store, run) ==
    IF run.isGuest
    THEN [ statuses |-> [ n \in { guestData.servers[i].name : i \in DOMAIN guestData.servers } |->
                            LET x == CHOOSE i \in DOMAIN guestData.servers :
                                        /\ guestData.servers[i].name = n
                                        /\ \A j \in DOMAIN guestData.servers :
                                              guestData.servers[j].name = n => j <= i
                            IN  [ status |-> guestData.servers[x].status,
                                  reason |-> IF guestData.servers[x].status = "Up"
                                             THEN "OK 200" ELSE "Connection failed" ] ],
           store |-> store, error |-> "" ]
    ELSE IF run.connection = EMPTY
    THEN [ statuses |-> NoStatuses, store |-> store,
           error |-> Catch("Database connection required for authenticated mode") ]
    ELSE IF ~run.find
    THEN [ statuses |-> NoStatuses, store |-> store, error |-> Catch("Server.find failed") ]
    ELSE LET r == ProbeAll(run.order, NoStatuses, store, run)
         IN  IF r.error # ""
             THEN [ statuses |-> r.statuses, store |-> r.store, error |-> Catch(r.error) ]
             ELSE IF ~run.logSave
             THEN [ statuses |-> r.statuses, store |-> r.store, error |-> Catch("log.save failed") ]
             ELSE [ statuses |-> r.statuses,
                    store |-> [ r.store EXCEPT !.logs = Append(@, LogEntry(r.statuses)) ],
                    error |-> "" ]

\* a run in which the store answers and every probe has the same outcome
UniformRun(store, uri, up) ==
    [ isGuest |-> FALSE, connection |-> uri, find |-> TRUE,
      order |-> CHOOSE q \in Orders(TargetNames(store)) : TRUE,
      probe |-> [ n \in TargetNames(store) |-> IF up THEN Resolved ELSE Refused ],
      saveFails |-> {}, logSave |-> TRUE ]

\* checkServerHealth over a connection, as the routes of the other
\* specifications see it: every target gets the probed status and one log
\* entry is appended
HealthChecked(store, up) == checkServerHealth(Free, store, UniformRun(store, <<"m">>, up)).store

\* the runs a call can take over a store; the first failing save ends the
\* call, so a run names at most one, and log.save is reached only when none
\* failed
Runs(store, uri) ==
    { NoRun, [ NoRun EXCEPT !.isGuest = TRUE ],
      [ NoRun EXCEPT !.connection = uri, !.find = FALSE ] }
    \cup { run \in { [ isGuest |-> FALSE, connection |-> uri, find |-> TRUE, order |-> order,
                       probe |-> probe, saveFails |-> saveFails, logSave |-> logSave ] :
                     order \in Orders(TargetNames(store)),
                     probe \in [ TargetNames(store) -> ProbeResults ],
                     saveFails \in SUBSET TargetNames(store), logSave \in BOOLEAN } :
            /\ Cardinality(run.saveFails) <= 1
            /\ run.saveFails # {} => run.logSave }

\* one call of checkServerHealth
CheckServerHealth(s, uri, run) ==
    /\ run.isGuest \/ Len(db[uri].logs) < MaxLogs
    /\ LET gd == getGuestData(s)
           r == checkServerHealth(gd.hp[gd.gs[s]], db[uri], run)
       IN  /\ guestStorage' = IF run.isGuest THEN gd.gs ELSE guestStorage
           /\ heap' = IF run.isGuest THEN gd.hp ELSE heap
           /\ db' = [ db EXCEPT ![uri] = r.store ]
           /\ last' = [ Event("checkServerHealth", s, IF r.error = "" THEN "returned" ELSE "thrown")
                          EXCEPT !.statuses = r.statuses, !.run = run ]
    /\ UNCHANGED << sessions, connectionPool, conns, reqs, PIPELINE_STATUS, timers >>

\* the bounded part of a store operation
CanServe(route, uri) ==
    /\ route \in { "GET /status", "GET /dashboard" } => Len(db[uri].logs) < MaxLogs
    /\ route = "POST /deploy" => Len(db[uri].deployments) < MaxDeploys

\* a store without a unique index on the target name
DuplicateKeyNever(store, name) == FALSE

\* server.save() of a new target: the unique index on name rejects the
\* insert (error.code 11000) when a target of that name is stored
DuplicateKey(store, name) == \E x \in store.servers : x.name = name

\* What a credentialed handler does once it holds its connection: the store,
\* the pipeline status and the timers after it, and its response.
Serve(route, uri, body, up, conn) ==
    LET store == db[uri]
        same(result) == [ db |-> db, pipeline |-> PIPELINE_STATUS, timers |-> timers,
                          result |-> result ]
        with(st, result) == [ db |-> [ db EXCEPT ![uri] = st ], pipeline |-> PIPELINE_STATUS,
                              timers |-> timers, result |-> result ]
    IN  CASE route \in { "GET /status", "GET /dashboard" } ->
                with(HealthChecked(store, up), "200")
          [] route = "POST /deploy" ->
                [ db |-> [ db EXCEPT ![uri].deployments = Append(store.deployments, "in_progress") ],
                  pipeline |-> "in_progress",
                  timers |-> timers \cup { [ uri |-> uri, idx |-> Len(store.deployments) + 1,
                                              conn |-> conn ] },
                  result |-> "200:Deployment triggered" ]
          [] route = "POST /servers" ->
                IF DuplicateKey(store, body)
                THEN same("409:Server with this name already exists")
                ELSE with([ store EXCEPT !.servers = @ \cup { [ name |-> body, status |-> "Unknown" ] } ],
                          "201:Server added")
          [] route = "DELETE /servers/:name" ->
                IF \E x \in store.servers : x.name = body
                THEN with([ store EXCEPT !.servers = { x \in @ : x.name # body } ], "200:Server removed")
                ELSE same("404:Server not found")
          [] route = "POST /logs_delete" ->
                with([ store EXCEPT !.logs = << >> ], "redirect:/dashboard")
          [] OTHER -> same("200")

Route(s, route, apiKey, body, up) ==
    /\ CanRequest(s)
    /\ LET session == sessions[s]
           pre == Precheck(route, session, apiKey, body)
           uri == session.config.MONGO_URI
           key == connectionKey(s, uri)
       IN  IF pre # "next"
           THEN Reply(Event(route, s, pre))
           ELSE IF GuestBranch(session)
           THEN /\ guestStorage' = IF ReadsGuestData(route) THEN getGuestData(s).gs ELSE guestStorage
                /\ heap' = IF ReadsGuestData(route) THEN getGuestData(s).hp ELSE heap
                /\ last' = [ Event(route, s, "200") EXCEPT !.statuses =
                               IF route \in { "GET /status", "GET /dashboard" }
                               THEN checkServerHealth(getGuestData(s).hp[getGuestData(s).gs[s]], EmptyStore,
                                                      [ NoRun EXCEPT !.isGuest = TRUE ]).statuses
                               ELSE NoStatuses ]
                /\ UNCHANGED << sessions, connectionPool, conns, reqs, PIPELINE_STATUS, db, timers >>
           ELSE IF route = "GET /render-deployments"
           THEN Reply(Event(route, s, "200"))
           ELSE IF uri = EMPTY
           THEN Reply(Event(route, s, "500"))
           ELSE IF CacheHit(key)
           THEN /\ CanServe(route, uri)
                /\ LET conn == connectionPool[PoolIndex(connectionPool, key)].conn
                       served == Serve(route, uri, body, up, conn)
                   IN  /\ db' = served.db
                       /\ PIPELINE_STATUS' = served.pipeline
                       /\ timers' = served.timers
                       /\ last' = [ Event(route, s, served.result) EXCEPT
                                      !.conn = conn, !.cached = TRUE ]
                /\ UNCHANGED << sessions, guestStorage, heap, connectionPool, conns, reqs >>
           ELSE /\ CanServe(route, uri)
                /\ AwaitConnection(route, s, uri, FALSE, NoFile, body)
                /\ UNCHANGED << sessions, guestStorage, heap, PIPELINE_STATUS, db, timers >>

\* POST /deploy over a cached connection when `await deployment.save()`
\* rejects: PIPELINE_STATUS is assigned before the save, the catch answers
\* 500, and no timer is set
DeploySaveFails(s, apiKey, body) ==
    /\ CanRequest(s)
    /\ LET session == sessions[s]
           key == connectionKey(s, session.config.MONGO_URI)
       IN  /\ Precheck("POST /deploy", session, apiKey, body) = "next"
           /\ ~GuestBranch(session)
           /\ session.config.MONGO_URI # EMPTY
           /\ CacheHit(key)
           /\ PIPELINE_STATUS' = "in_progress"
           /\ last' = [ Event("POST /deploy", s, "500:Deployment failed") EXCEPT
                          !.conn = connectionPool[PoolIndex(connectionPool, key)].conn,
                          !.cached = TRUE ]
    /\ UNCHANGED << sessions, guestStorage, heap, connectionPool, conns, reqs, db, timers >>

\* `await conn.asPromise()` settles in getConnection: on success the
\* connection is cached under its key and the handler goes on; on failure the
\* error is rethrown to the handler
ConnectResume(r, ok, up) ==
    /\ reqs[r].pc = "connecting"
    /\ LET req == reqs[r]
           served == Serve(req.route, req.uri, req.body, up, req.conn)
           ev(result) == [ Event(req.route, req.sid, result) EXCEPT !.conn = req.conn ]
           pool1 == IF ok THEN PoolSet(connectionPool, req.key, req.conn) ELSE connectionPool
           rq1 == [ reqs EXCEPT ![r] = IdleReq ]
       IN  /\ conns' = Collect([ conns EXCEPT ![req.conn].state = IF ok THEN "connected" ELSE "failed" ],
                               pool1, rq1)
           /\ connectionPool' = pool1
           /\ reqs' = rq1
           /\ IF req.route = "POST /upload-env"
              THEN /\ sessions' = SaveSession(req.sid, UploadedSession(parseEnvContent(req.file.buffer)),
                                              req.dirty)
                   /\ last' = ev(IF ok THEN "redirect:/dashboard"
                                 ELSE "redirect:/?error=db_connection_failed")
                   /\ UNCHANGED << PIPELINE_STATUS, db, timers >>
              ELSE IF ok
              THEN /\ CanServe(req.route, req.uri)
                   /\ db' = served.db
                   /\ PIPELINE_STATUS' = served.pipeline
                   /\ timers' = served.timers
                   /\ last' = ev(served.result)
                   /\ UNCHANGED sessions
              ELSE /\ last' = ev("500")
                   /\ UNCHANGED << sessions, PIPELINE_STATUS, db, timers >>
    /\ UNCHANGED << guestStorage, heap >>

\* the setTimeout callback of POST /deploy: PIPELINE_STATUS is assigned, then
\* the record is saved over the connection the handler held; the save is
\* rejected when that connection is no longer connected, and nothing
\* catches the rejection
DeployTimer(t) ==
    /\ t \in timers
    /\ PIPELINE_STATUS' = "success"
    /\ db' = IF conns[t.conn].state = "connected"
             THEN [ db EXCEPT ![t.uri].deployments[t.idx] = "success" ]
             ELSE db
    /\ timers' = timers \ { t }
    /\ conns' = [ h \in Handles |->
                    IF Garbage(conns, connectionPool, reqs, timers \ { t }, h) THEN NoConn ELSE conns[h] ]
    /\ last' = Event("setTimeout", EMPTY,
                     IF conns[t.conn].state = "connected" THEN "" ELSE "rejected")
    /\ UNCHANGED << sessions, guestStorage, heap, connectionPool, reqs >>

\* a log.save() that replaces the collection by the new entry
LogSavedAlone(logs, entry) == << entry >>

\* the collection after log.save(): the new document is inserted
LogSaved(logs, entry) == Append(logs, entry)

\* checkServerHealth await by await, for calls that overlap. `servers` are the
\* documents Server.find() resolved with, those not yet probed; `statuses`
\* is the call's own mapping.
HealthFind(r, s, uri, order) ==
    /\ reqs[r].pc = "idle"
    /\ Len(db[uri].logs) + Cardinality({ q \in Slots : reqs[q].pc = "probing" }) < MaxLogs + 1
    /\ reqs' = [ reqs EXCEPT ![r] =
                   [ IdleReq EXCEPT !.pc = "probing", !.route = "checkServerHealth", !.sid = s,
                                    !.uri = uri,
                                    !.servers = [ i \in DOMAIN order |->
                                                    CHOOSE x \in db[uri].servers : x.name = order[i] ] ] ]
    /\ last' = Event("Server.find", s, "")
    /\ UNCHANGED << sessions, guestStorage, heap, connectionPool, conns, PIPELINE_STATUS, db, timers >>

\* a probe settles and `server.status = ...; await server.save()` runs on the
\* document the call holds. A save of a document whose status is the one it
\* was found with may write or not (written: the store's driver may skip an
\* unmodified document).
HealthSave(r, result, written) ==
    /\ reqs[r].pc = "probing"
    /\ reqs[r].servers # << >>
    /\ LET server == Head(reqs[r].servers)
           entry == Probed(result)
           statuses == [ n \in DOMAIN reqs[r].statuses \cup { server.name } |->
                           IF n = server.name THEN entry ELSE reqs[r].statuses[n] ]
       IN  /\ ~written => entry.status = server.status
           /\ reqs' = [ reqs EXCEPT ![r].servers = Tail(@), ![r].statuses = statuses ]
           /\ db' = IF written
                    THEN [ db EXCEPT ![reqs[r].uri].servers =
                             { IF x.name = server.name THEN [ x EXCEPT !.status = entry.status ] ELSE x
                               : x \in @ } ]
                    ELSE db
           /\ last' = [ Event("server.save", reqs[r].sid, IF written THEN "written" ELSE "unmodified")
                          EXCEPT !.statuses = [ n \in { server.name } |-> entry ] ]
    /\ UNCHANGED << sessions, guestStorage, heap, connectionPool, conns, PIPELINE_STATUS, timers >>

\* the loop is over: `await log.save()`, then `return statuses`
HealthLogSave(r) ==
    /\ reqs[r].pc = "probing"
    /\ reqs[r].servers = << >>
    /\ db' = [ db EXCEPT ![reqs[r].uri].logs = LogSaved(@, LogEntry(reqs[r].statuses)) ]
    /\ reqs' = [ reqs EXCEPT ![r] = IdleReq ]
    /\ last' = [ Event("checkServerHealth", reqs[r].sid, "returned")
                   EXCEPT !.statuses = reqs[r].statuses ]
    /\ UNCHANGED << sessions, guestStorage, heap, connectionPool, conns, PIPELINE_STATUS, timers >>

\* the first lines of getConnection for one pair of arguments: the key is
\* built and held by the call
BuildKey(r, sessionId, mongoUri) ==
    /\ reqs[r].pc = "idle"
    /\ reqs' = [ reqs EXCEPT ![r] = [ IdleReq EXCEPT !.pc = "key", !.sid = sessionId, !.uri = mongoUri,
                                                      !.key = connectionKey(sessionId, mongoUri) ] ]
    /\ UNCHANGED << sessions, guestStorage, heap, connectionPool, conns, PIPELINE_STATUS, db, timers, last >>

\* ------------------------------------------------------------ environment
\* a sweep that takes every entry for dead
DeadEntriesAll(pool) == DOMAIN pool

\* the entries the sweep finds dead: `conn.readyState !== 1`
DeadEntries(pool) == { i \in DOMAIN pool : readyState(pool[i].conn) # 1 }

\* a sweep that a failing close ends: the dead entries up to the first one
\* whose close fails
SweptUntilFailure(D, F) ==
    { i \in D : \A j \in D : j < i => connectionPool[j].conn \notin F }

\* the dead entries one run of the sweep handles: `conn.close().catch(...)`
\* handles the rejection of a close, and the loop goes on
Swept(D, F) == D

\* One run of the setInterval sweep: every entry whose readyState is not 1
\* is closed and deleted; F holds the connections whose close() is rejected.
SweepRun(F) ==
    LET D == DeadEntries(connectionPool)
        P == Swept(D, F)
    IN  /\ F \subseteq { connectionPool[i].conn : i \in D }
        /\ connectionPool' = Without(connectionPool, P)
        /\ conns' = Collect([ h \in Handles |->
                                IF h \notin F /\ \E i \in P : connectionPool[i].conn = h
                                THEN [ conns[h] EXCEPT !.state = "closed" ] ELSE conns[h] ],
                            Without(connectionPool, P), reqs)
        /\ reqs' = ShiftIt(reqs, P)
        /\ last' = [ Event("setInterval", EMPTY, "") EXCEPT
                       !.evicted = { connectionPool[i].key : i \in P } ]
        /\ UNCHANGED << sessions, guestStorage, heap, PIPELINE_STATUS, db, timers >>

\* a run of the sweep in which every close succeeds
Sweep == SweepRun({})

\* a cached connection loses its server
Disconnect(h) ==
    /\ conns[h].state = "connected"
    /\ \E i \in DOMAIN connectionPool : connectionPool[i].conn = h
    /\ conns' = [ conns EXCEPT ![h].state = "disconnected" ]
    /\ last' = Event("disconnect", EMPTY, "")
    /\ UNCHANGED << sessions, guestStorage, heap, connectionPool, reqs, PIPELINE_STATUS, db, timers >>

\* the session cookie's maxAge (30 minutes) passes without a request: the
\* store drops the session record, and nothing else
Expire(s) ==
    /\ sessions[s] # NoSession
    /\ ~InFlight(s)
    /\ sessions' = DestroySession(s)
    /\ last' = Event("expire", s, "")
    /\ UNCHANGED << guestStorage, heap, connectionPool, conns, reqs, PIPELINE_STATUS, db, timers >>

\* ---------------------------------------------------------- specifications
A == <<"s", "1">>
B == <<"s", "2">>
X == <<"m", ":", "x">>
Y == <<"m", ":", "y">>

\* uploads: address X with key k1, address X with key k2, address Y with key k1
EnvX1 == [ present |-> TRUE,
           buffer |-> << Line("MONGO_URI", X), Line("API_KEY", <<"k1">>) >> ]
EnvX2 == [ present |-> TRUE,
           buffer |-> << Line("API_KEY", <<"k2">>), Line("MONGO_URI", X) >> ]
EnvY1 == [ present |-> TRUE,
           buffer |-> << Line("MONGO_URI", X), Line("API_KEY", <<"k1">>), Line("MONGO_URI", Y) >> ]

\* no handler is suspended: the next request starts after the last one ended
Quiet == \A r \in Slots : reqs[r].pc = "idle"

\* The registry under requests that arrive one after the other: two sessions,
\* uploads for the same and for different addresses, data access, logout, the
\* sweep, and connections that die.
Next ==
    \/ Quiet /\ \E s \in SessionIds, file \in { EnvX1, EnvY1 } : Upload(s, file)
    \/ Quiet /\ \E s \in SessionIds : Logout(s)
    \/ \E r \in Slots : LogoutResume(r, TRUE)
    \/ Quiet /\ \E s \in SessionIds : Route(s, "GET /deployments", <<"k1">>, "", TRUE)
    \/ \E r \in Slots, ok \in BOOLEAN : ConnectResume(r, ok, TRUE)
    \/ Sweep
    \/ \E h \in Handles : Disconnect(h)

Spec == Init /\ [][Next]_vars

\* Activation: one session uploads every file beside a second tenant; guest
\* mode, logout, session expiry and a protected route, one request after the
\* other.
NextUpload ==
    \/ Quiet /\ \E file \in Files : Upload(A, file)
    \/ Quiet /\ Upload(B, EnvX1)
    \/ Quiet /\ \E s \in SessionIds : GuestMode(s)
    \/ Quiet /\ \E s \in SessionIds : Logout(s)
    \/ \E r \in Slots : LogoutResume(r, TRUE)
    \/ Quiet /\ \E s \in SessionIds : Route(s, "GET /render-deployments", EMPTY, "", TRUE)
    \/ \E r \in Slots, ok \in BOOLEAN : ConnectResume(r, ok, TRUE)
    \/ \E s \in SessionIds : Expire(s)

SpecUpload == Init /\ [][NextUpload]_vars

\* the bodies that make a difference to a route: the routes that read no
\* field of the body or the path are sent without one
BodiesOf(route) ==
    IF route \in { "POST /deploy", "POST /servers", "DELETE /servers/:name" } THEN Bodies ELSE { "" }

\* The route layer: one session in every mode sends every protected route
\* with every header and body, one request after the other; every target
\* answers its probe.
NextGate ==
    \/ Quiet /\ Upload(A, EnvX1)
    \/ Quiet /\ GuestMode(A)
    \/ Quiet /\ Logout(A)
    \/ \E r \in Slots : LogoutResume(r, TRUE)
    \/ Quiet /\ \E route \in Routes, apiKey \in Headers :
           \E body \in BodiesOf(route) : Route(A, route, apiKey, body, TRUE)
    \/ \E r \in Slots, ok \in BOOLEAN : ConnectResume(r, ok, TRUE)
    \/ \E t \in timers : DeployTimer(t)

SpecGate == Init /\ [][NextGate]_vars

\* Two tenants side by side, with one address and a key each: both modes,
\* reads and writes, logout, the sweep and connections that die, one request
\* after the other.
NextIso ==
    \/ Quiet /\ Upload(A, EnvX1)
    \/ Quiet /\ Upload(B, EnvX2)
    \/ Quiet /\ \E s \in SessionIds : GuestMode(s)
    \/ Quiet /\ \E s \in SessionIds : Logout(s)
    \/ \E r \in Slots : LogoutResume(r, TRUE)
    \/ Quiet /\ \E s \in SessionIds, route \in { "GET /deployments", "POST /servers" },
                  apiKey \in Headers \ { EMPTY } :
           Route(s, route, apiKey, "svc1", TRUE)
    \/ \E r \in Slots, ok \in BOOLEAN : ConnectResume(r, ok, TRUE)
    \/ Sweep
    \/ \E h \in Handles : Disconnect(h)

SpecIso == Init /\ [][NextIso]_vars

\* One session whose handlers overlap at their awaits.
NextRace ==
    \/ Upload(A, EnvX1)
    \/ Logout(A)
    \/ \E r \in Slots : LogoutResume(r, TRUE)
    \/ Route(A, "GET /deployments", <<"k1">>, "", TRUE)
    \/ \E r \in Slots, ok \in BOOLEAN : ConnectResume(r, ok, TRUE)
    \/ Sweep
    \/ \E h \in Handles : Disconnect(h)

SpecRace == Init /\ [][NextRace]_vars

\* Logout with closes that may fail: two sessions in either mode, with up to
\* two addresses each, one request after the other.
NextLogout ==
    \/ Quiet /\ \E s \in SessionIds, file \in { EnvX1, EnvY1 } : Upload(s, file)
    \/ Quiet /\ \E s \in SessionIds : GuestMode(s)
    \/ Quiet /\ \E s \in SessionIds : Logout(s)
    \/ \E r \in Slots, ok \in BOOLEAN : LogoutResume(r, ok)
    \/ \E r \in Slots, ok \in BOOLEAN : ConnectResume(r, ok, TRUE)

SpecLogout == Init /\ [][NextLogout]_vars

\* Sessions that expire: A activates with credentials and B as a guest, both
\* send every protected route and both may expire without logging out; one
\* request after the other.
NextExpiry ==
    \/ Quiet /\ Upload(A, EnvX1)
    \/ Quiet /\ GuestMode(B)
    \/ Quiet /\ \E s \in SessionIds, route \in Routes, apiKey \in { <<"k1">>, GUEST_CONFIG.API_KEY } :
           Route(s, route, apiKey, "svc1", TRUE)
    \/ \E r \in Slots, ok \in BOOLEAN : ConnectResume(r, ok, TRUE)
    \/ \E t \in timers : DeployTimer(t)
    \/ \E s \in SessionIds : Expire(s)

SpecExpiry == Init /\ [][NextExpiry]_vars

\* Sessions that are abandoned: either identity activates in either mode and
\* expires without logging out, while connections die and the sweep runs.
NextAbandoned ==
    \/ Quiet /\ \E s \in SessionIds : Upload(s, EnvX1)
    \/ Quiet /\ \E s \in SessionIds : GuestMode(s)
    \/ \E r \in Slots, ok \in BOOLEAN : ConnectResume(r, ok, TRUE)
    \/ \E s \in SessionIds : Expire(s)
    \/ Sweep
    \/ \E h \in Handles : Disconnect(h)

\* The scheduling the runtime gives: the interval timer keeps firing and
\* every pending connection attempt settles.
SpecAbandoned ==
    /\ Init /\ [][NextAbandoned]_vars
    /\ WF_vars(Sweep)
    /\ WF_vars(\E r \in Slots, ok \in BOOLEAN : ConnectResume(r, ok, TRUE))

\* The health check on its own: a database that holds up to two targets is
\* checked again and again, by guests and over a connection, with every
\* outcome of the store operations and of the probes.
Targets == { "svc1", "svc2" }

InitHealth ==
    /\ sessions = [ s \in SessionIds |-> NoSession ]
    /\ guestStorage = [ s \in SessionIds |-> 0 ]
    /\ heap = [ r \in Refs |-> Free ]
    /\ connectionPool = << >>
    /\ conns = [ h \in Handles |-> NoConn ]
    /\ reqs = [ r \in Slots |-> IdleReq ]
    /\ PIPELINE_STATUS = "success"
    /\ \E T \in SUBSET Targets :
          db = [ a \in Addrs |-> IF a = X
                                 THEN [ EmptyStore EXCEPT !.servers =
                                          { [ name |-> n, status |-> "Unknown" ] : n \in T } ]
                                 ELSE EmptyStore ]
    /\ timers = {}
    /\ last = NoEvent

NextHealth ==
    \/ \E run \in Runs(db[X], X) : CheckServerHealth(A, X, run)
    \/ CheckServerHealth(B, X, [ NoRun EXCEPT !.isGuest = TRUE ])

SpecHealth == InitHealth /\ [][NextHealth]_vars

\* The probes alone: one credentialed call over the targets of the store, the
\* store answering every call, each probe settling in any of the ways
\* axios.get can settle.
ProbeRuns(store, uri) ==
    { [ UniformRun(store, uri, TRUE) EXCEPT !.probe = probe ] :
      probe \in [ TargetNames(store) -> { Resolved } \cup ProbeErrors ] }

NextProbe == \E run \in ProbeRuns(db[X], X) : CheckServerHealth(A, X, run)

SpecProbe == InitHealth /\ [][NextProbe]_vars

\* Health checks of one credentialed session that overlap: each call runs
\* await by await, and the calls interleave at every await.
NextOverlap ==
    \/ \E r \in Slots, order \in Orders(TargetNames(db[X])) : HealthFind(r, A, X, order)
    \/ \E r \in Slots, result \in { Resolved, Refused }, written \in BOOLEAN :
          HealthSave(r, result, written)
    \/ \E r \in Slots : HealthLogSave(r)

SpecOverlap == InitHealth /\ [][NextOverlap]_vars

\* The pipeline status under deployments that overlap: each session deploys
\* to its own address and reads its deployments, and the timers fire in any
\* order.
NextPipeline ==
    \/ Quiet /\ Upload(A, EnvX1)
    \/ Quiet /\ Upload(B, EnvY1)
    \/ Quiet /\ \E s \in SessionIds, route \in { "POST /deploy", "GET /deployments" } :
           Route(s, route, <<"k1">>, "svc1", TRUE)
    \/ \E r \in Slots : ConnectResume(r, TRUE, TRUE)
    \/ \E t \in timers : DeployTimer(t)

SpecPipeline == Init /\ [][NextPipeline]_vars

\* Deployments that fail: the connection may not be established and the save
\* of the record may be rejected; the timers fire and every pending promise
\* settles.
NextDeployFails ==
    \/ Quiet /\ \E s \in SessionIds : Upload(s, EnvX1)
    \/ Quiet /\ \E s \in SessionIds : Route(s, "POST /deploy", <<"k1">>, "svc1", TRUE)
    \/ Quiet /\ \E s \in SessionIds : DeploySaveFails(s, <<"k1">>, "svc1")
    \/ \E r \in Slots, ok \in BOOLEAN : ConnectResume(r, ok, TRUE)
    \/ \E t \in timers : DeployTimer(t)

SpecDeployFails ==
    /\ Init /\ [][NextDeployFails]_vars
    /\ WF_vars(\E t \in timers : DeployTimer(t))
    /\ WF_vars(\E r \in Slots, ok \in BOOLEAN : ConnectResume(r, ok, TRUE))

\* Key construction alone. Identities are what the session middleware
\* generates: strings of one fixed length over an alphabet without ':'.
\* Addresses are whatever MONGO_URI an upload carries; a mongodb URI has ':'
\* after its scheme, and letters that identities have too.
KeyIdLen == 2
KeyUriLen == 2
KeyIds == [ 1 .. KeyIdLen -> { "a", "b" } ]
KeyUris == UNION { [ 1 .. n -> { "a", ":" } ] : n \in 1 .. KeyUriLen }

NextKey == \E r \in Slots, sessionId \in KeyIds, mongoUri \in KeyUris : BuildKey(r, sessionId, mongoUri)

SpecKey == Init /\ [][NextKey]_vars

\* Deployments: credentialed sessions deploy, log out and deploy again while
\* the timers of earlier deployments are pending; the timers fire and every
\* pending promise settles.
NextDeploy ==
    \/ Quiet /\ \E s \in SessionIds : Upload(s, EnvX1)
    \/ Quiet /\ \E s \in SessionIds : Route(s, "POST /deploy", <<"k1">>, "svc1", TRUE)
    \/ Quiet /\ \E s \in SessionIds : Logout(s)
    \/ \E r \in Slots : LogoutResume(r, TRUE)
    \/ \E r \in Slots : ConnectResume(r, TRUE, TRUE)
    \/ \E t \in timers : DeployTimer(t)

SpecDeploy ==
    /\ Init /\ [][NextDeploy]_vars
    /\ WF_vars(\E t \in timers : DeployTimer(t))
    /\ WF_vars(\E r \in Slots : ConnectResume(r, TRUE, TRUE))
    /\ WF_vars(\E r \in Slots : LogoutResume(r, TRUE))

\* The sweep with closes that may fail: one session connects to two
\* addresses, another is a guest, connections die, and the sweep runs; one
\* request after the other.
NextSweep ==
    \/ Quiet /\ \E file \in { EnvX1, EnvY1 } : Upload(A, file)
    \/ Quiet /\ GuestMode(B)
    \/ \E r \in Slots, ok \in BOOLEAN : ConnectResume(r, ok, TRUE)
    \/ \E h \in Handles : Disconnect(h)
    \/ \E F \in SUBSET Handles : SweepRun(F)

SpecSweep == Init /\ [][NextSweep]_vars

\* ------------------------------------------------------------- properties
\* the registry holds a live connection h under key
LiveEntry(key, h) ==
    /\ \E i \in DOMAIN connectionPool : connectionPool[i] = [ key |-> key, conn |-> h ]
    /\ conns[h].state = "connected"

\* the key is one built for session s
KeyOfSession(key, s) == \E u \in Addrs : key = s \o <<":">> \o u

\* no key and no connection object appears twice in the registry, and the
\* entries of a and b for the address u are different entries
EntriesDisjoint(a, b, u) ==
    /\ a \o <<":">> \o u # b \o <<":">> \o u
    /\ \A i, j \in DOMAIN connectionPool :
         i # j => /\ connectionPool[i].key # connectionPool[j].key
                  /\ connectionPool[i].conn # connectionPool[j].conn
    /\ \A i, j \in DOMAIN connectionPool :
         /\ connectionPool[i].key = a \o <<":">> \o u
         /\ connectionPool[j].key = b \o <<":">> \o u
         => i # j /\ connectionPool[i].conn # connectionPool[j].conn

\* C1: two distinct sessions that supply the same address get two distinct
\* registry entries and two distinct connection handles, and every step of
\* GET /logout for one session leaves each entry of another session in the
\* registry, with its connection untouched.
C1_LogoutSparesOtherTenants ==
    [][ /\ \A a, b \in SessionIds, u \in Addrs : a # b => EntriesDisjoint(a, b, u)'
        /\ \A a \in SessionIds :
             last'.route = "GET /logout" /\ last'.sid = a
             => \A i \in DOMAIN connectionPool :
                  ~KeyOfSession(connectionPool[i].key, a)
                  => /\ \E j \in DOMAIN connectionPool' : connectionPool'[j] = connectionPool[i]
                     /\ conns'[connectionPool[i].conn] = conns[connectionPool[i].conn] ]_vars

\* C1 witness: A's logout is closing A's connection for address X while B
\* holds a live entry, with another handle, for the same address.
C1_Witness ==
    /\ last.route = "GET /logout" /\ last.sid = A /\ last.result = "pending"
    /\ conns[last.conn] = [ key |-> A \o <<":">> \o X, state |-> "closing" ]
    /\ \E h \in Handles : h # last.conn /\ LiveEntry(B \o <<":">> \o X, h)

\* the step hands out the cached connection h and creates nothing
Reused(h) ==
    /\ last'.conn = h /\ last'.cached
    /\ last'.result \in { "200", "redirect:/dashboard" }
    /\ connectionPool' = connectionPool
    /\ conns' = conns

\* C4: a getConnection call for a (session, address) pair whose cached handle
\* is live returns that handle: no connection object is created and the
\* registry map is left as it was, call after call.
C4_LiveHandleReused ==
    [][ \A s \in SessionIds, h \in Handles :
          /\ ( /\ Quiet
               /\ last'.route = "GET /deployments" /\ last'.sid = s
               /\ sessions[s].isGuest = "false"
               /\ LiveEntry(s \o <<":">> \o sessions[s].config.MONGO_URI, h) )
             => Reused(h)
          /\ \A p \in { << EnvX1, X >>, << EnvY1, Y >> } :
               /\ last'.route = "POST /upload-env" /\ last'.sid = s
               /\ LiveEntry(s \o <<":">> \o p[2], h)
               /\ Upload(s, p[1])
               => Reused(h) ]_vars

\* C4 witness: a data request was answered from the cache, over a live handle.
C4_Witness ==
    /\ last.route = "GET /deployments" /\ last.result = "200" /\ last.cached
    /\ LiveEntry(last.sid \o <<":">> \o sessions[last.sid].config.MONGO_URI, last.conn)

\* C3: single-flight. At no time do two connection objects exist, connecting
\* or connected, for one registry key: concurrent getConnection calls for a
\* key that is not cached create one connection and share it.
C3_SingleFlight ==
    \A h1, h2 \in Handles :
        /\ h1 # h2
        /\ conns[h1].key # EMPTY
        /\ conns[h1].key = conns[h2].key
        => ~ ( /\ conns[h1].state \in { "connecting", "connected" }
               /\ conns[h2].state \in { "connecting", "connected" } )

UploadFailures ==
    { "redirect:/?error=no_file", "redirect:/?error=invalid_env",
      "redirect:/?error=db_connection_failed" }

\* C5: an upload that ends in no_file, invalid_env or db_connection_failed
\* leaves the session as it was before the request.
C5_FailedUploadKeepsSession ==
    [][ last'.route = "POST /upload-env" /\ last'.result \in UploadFailures
        => sessions'[last'.sid] = sessions[last'.sid] ]_vars

\* the blob assigns a non-empty value to the field k: the line that assigns k
\* and is followed by no other line assigning k has a non-empty value
HasField(buffer, k) ==
    \E i \in DOMAIN buffer :
        /\ buffer[i].key = k /\ buffer[i].val # EMPTY
        /\ \A j \in DOMAIN buffer : j > i => buffer[j].key # k

FieldValue(buffer, k) ==
    buffer[CHOOSE i \in DOMAIN buffer :
             buffer[i].key = k /\ \A j \in DOMAIN buffer : j > i => buffer[j].key # k].val

\* C6: an upload whose blob leaves MONGO_URI or API_KEY absent or empty ends
\* in invalid_env; it creates no connection, leaves the registry, the
\* suspended handlers and the session store alone, and so leaves requireAuth's
\* verdict on the session as it was.
C6_InvalidEnvRejected ==
    [][ \A s \in SessionIds, f \in Files :
          /\ last'.route = "POST /upload-env" /\ last'.sid = s
          /\ f.present
          /\ ~HasField(f.buffer, "MONGO_URI") \/ ~HasField(f.buffer, "API_KEY")
          /\ Upload(s, f)
          => /\ last'.result = "redirect:/?error=invalid_env"
             /\ UNCHANGED << sessions, connectionPool, conns, reqs >>
             /\ requireAuth(sessions'[s]) = requireAuth(sessions[s]) ]_vars

\* C6 witness: an upload was answered with invalid_env and its session still
\* fails requireAuth.
C6_Witness ==
    /\ last.route = "POST /upload-env"
    /\ last.result = "redirect:/?error=invalid_env"
    /\ requireAuth(sessions[last.sid]) = "redirect:/?error=upload_required"

\* the step ends an upload of file f by session s: at once, over the cached
\* connection, or when connection establishment succeeds
UploadSucceeds(s, f) ==
    /\ \/ Upload(s, f)
       \/ \E r \in Slots :
            /\ reqs[r].pc = "connecting" /\ reqs[r].route = "POST /upload-env"
            /\ reqs[r].sid = s /\ reqs[r].file = f
            /\ ConnectResume(r, TRUE, TRUE)
    /\ last'.result # "pending"

\* C7: an upload whose blob holds a non-empty MONGO_URI and API_KEY and whose
\* connection is established ends in /dashboard; afterwards requireAuth passes
\* the session, the session is credentialed and its configuration holds the
\* uploaded address and key.
C7_ValidUploadActivates ==
    [][ \A s \in SessionIds, f \in Files :
          /\ last'.route = "POST /upload-env" /\ last'.sid = s
          /\ f.present
          /\ HasField(f.buffer, "MONGO_URI") /\ HasField(f.buffer, "API_KEY")
          /\ UploadSucceeds(s, f)
          => /\ last'.result = "redirect:/dashboard"
             /\ requireAuth(sessions'[s]) = "next"
             /\ sessions'[s].isGuest = "false"
             /\ sessions'[s].config.MONGO_URI = FieldValue(f.buffer, "MONGO_URI")
             /\ sessions'[s].config.API_KEY = FieldValue(f.buffer, "API_KEY") ]_vars

\* C7 witness: an upload established a new connection and was sent to the
\* dashboard, and its session is credentialed for address Y.
C7_Witness ==
    /\ last.route = "POST /upload-env" /\ last.result = "redirect:/dashboard"
    /\ ~last.cached /\ conns[last.conn].state = "connected"
    /\ sessions[last.sid].isGuest = "false"
    /\ sessions[last.sid].config.MONGO_URI = Y

TenantWrites == { "POST /servers", "DELETE /servers/:name", "POST /deploy", "POST /logs_delete" }

GuestForbidden ==
    { "403:Cannot deploy in guest mode", "403:Cannot add servers in guest mode",
      "403:Cannot delete servers in guest mode", "403:Cannot delete logs in guest mode" }

\* C8: a tenant-write request of a guest session, sent with the guest API
\* key, is answered with a guest-mode-forbidden response whatever its body,
\* and leaves the guest datasets, the registry, the stores and
\* PIPELINE_STATUS unchanged.
C8_GuestWritesForbidden ==
    [][ \A s \in SessionIds, route \in TenantWrites, body \in Bodies, up \in BOOLEAN :
          /\ sessions[s].isGuest = "true"
          /\ Route(s, route, GUEST_CONFIG.API_KEY, body, up)
          => /\ last'.result \in GuestForbidden
             /\ UNCHANGED << guestStorage, heap, connectionPool, conns, db, timers, PIPELINE_STATUS >> ]_vars

\* the session is a guest, or is credentialed and holds a bundle
Authenticated(session) ==
    \/ session.isGuest = "true"
    \/ session.isGuest = "false" /\ session.config.defined

\* C10: a request to a protected route is redirected to the upload page with
\* upload_required if and only if its session is neither a guest nor
\* credentialed with a bundle; a redirected request changes nothing, and no
\* handler that got past the gate answers upload_required later.
C10_RequireAuthGate ==
    [][ \A route \in Routes :
          last'.route = route
          => /\ Quiet => ( last'.result = "redirect:/?error=upload_required"
                           <=> ~Authenticated(sessions[last'.sid]) )
             /\ last'.result = "redirect:/?error=upload_required"
                => /\ Quiet
                   /\ UNCHANGED << sessions, guestStorage, heap, connectionPool, conns, reqs,
                                   PIPELINE_STATUS, db, timers >> ]_vars

\* C10 witness: a dashboard request of a session without a mode was redirected.
C10_Witness ==
    /\ last.route = "GET /dashboard"
    /\ last.result = "redirect:/?error=upload_required"
    /\ sessions[last.sid].isGuest = "undefined"

\* what the requests of session b observe
Observed(b) ==
    LET session == sessions[b]
        key == connectionKey(b, session.config.MONGO_URI)
    IN  [ auth |-> requireAuth(session),
          mode |-> session.isGuest,
          apiKey |-> sessionApiKey(session),
          key |-> IF session.isGuest = "false" THEN key ELSE EMPTY,
          entry |-> IF session.isGuest = "false" /\ PoolIndex(connectionPool, key) # 0
                    THEN << connectionPool[PoolIndex(connectionPool, key)].conn,
                            conns[connectionPool[PoolIndex(connectionPool, key)].conn].state >>
                    ELSE << >>,
          dataset |-> IF guestStorage[b] = 0 THEN << >> ELSE << guestStorage[b], heap[guestStorage[b]] >> ]

\* C2: no step of a request of session a (upload, guest activation, read,
\* write, logout, and their resumptions) changes what another session b
\* observes: requireAuth's verdict, b's mode, the key authenticate compares
\* with, the registry key and entry b's data access resolves to, and b's
\* guest dataset.
C2_NonInterference ==
    [][ \A a, b \in SessionIds :
          a # b /\ last'.sid = a => Observed(b)' = Observed(b) ]_vars

\* C2 witness: A has just added a server to its store while B, credentialed
\* for the same address with another key, holds its own live entry.
C2_Witness ==
    /\ last.sid = A /\ last.route = "POST /servers" /\ last.result = "201:Server added"
    /\ sessions[A].config.MONGO_URI = X /\ sessions[A].config.API_KEY = <<"k1">>
    /\ Observed(B).apiKey = <<"k2">>
    /\ Observed(B).key = B \o <<":">> \o X
    /\ Observed(B).entry # << >> /\ Observed(B).entry[2] = "connected"

\* C9: two sessions never hold the same dataset object, and no step of a
\* request of session a changes the object, or the contents of the object,
\* getGuestData returns for another session b.
C9_GuestDatasetsPerSession ==
    [][ \A a, b \in SessionIds :
          a # b
          => /\ guestStorage'[a] # 0 => guestStorage'[a] # guestStorage'[b]
             /\ last'.sid = a /\ guestStorage[b] # 0
                => /\ guestStorage'[b] = guestStorage[b]
                   /\ heap'[guestStorage[b]] = heap[guestStorage[b]] ]_vars

\* C9 witness: A's logout has dropped A's dataset while B's dataset, another
\* object, still holds the demo data.
C9_Witness ==
    /\ last.sid = A /\ last.route = "GET /logout" /\ last.result = "redirect:/"
    /\ guestStorage[A] = 0
    /\ guestStorage[B] # 0 /\ heap[guestStorage[B]] = SeedDataset
    /\ sessions[B].isGuest = "true"

\* C11: a request of an unauthenticated session to a protected route is
\* turned away at the gate: it gets the upload_required redirect, is handed
\* no connection, suspends at no await, and leaves the registry, the
\* connection objects, the guest store and the backing stores unchanged.
C11_UnauthenticatedTouchesNoData ==
    [][ \A route \in Routes :
          /\ Quiet
          /\ last'.route = route
          /\ ~Authenticated(sessions[last'.sid])
          => /\ last'.result = "redirect:/?error=upload_required"
             /\ last'.conn = 0 /\ ~last'.cached
             /\ UNCHANGED << connectionPool, conns, reqs, guestStorage, heap, db,
                             PIPELINE_STATUS, timers >> ]_vars

\* C11 witness: POST /servers of a session without a mode, sent with a name,
\* was redirected.
C11_Witness ==
    /\ last.route = "POST /servers"
    /\ last.result = "redirect:/?error=upload_required"
    /\ ~Authenticated(sessions[last.sid])
    /\ db[X].servers = {}

\* C12: every entry of session s that a step of GET /logout takes out of the
\* registry has its connection closed, and when the logout has completed the
\* registry holds no entry built for s, the guest store holds no dataset for
\* s, and the session record is destroyed, so that requireAuth turns s away.
C12_LogoutReleasesAll ==
    [][ \A s \in SessionIds :
          last'.route = "GET /logout" /\ last'.sid = s
          => /\ \A i \in DOMAIN connectionPool :
                  /\ KeyOfSession(connectionPool[i].key, s)
                  /\ \A j \in DOMAIN connectionPool' : connectionPool'[j] # connectionPool[i]
                  => conns'[connectionPool[i].conn].state \in { "closed", "none" }
             /\ last'.result = "redirect:/"
                => /\ \A i \in DOMAIN connectionPool' : ~KeyOfSession(connectionPool'[i].key, s)
                   /\ guestStorage'[s] = 0
                   /\ sessions'[s] = NoSession
                   /\ requireAuth(sessions'[s]) = "redirect:/?error=upload_required" ]_vars

\* the logout of session s has just completed
LoggedOut(s) == last.route = "GET /logout" /\ last.sid = s /\ last.result = "redirect:/"

\* C13: directly after a completed logout of session s a second GET /logout
\* of s can be served, completes at once and leaves the registry, the
\* connection objects, the guest store and the session store as they were;
\* and the first getConnection of a session identity without a record (one
\* that has logged out) creates a new connection object and suspends on it
\* instead of returning a cached handle.
C13_LogoutIdempotent ==
    [][ \A s \in SessionIds :
          /\ LoggedOut(s) => ENABLED Logout(s)
          /\ LoggedOut(s) /\ last'.route = "GET /logout" /\ last'.sid = s
             => /\ last'.result = "redirect:/"
                /\ UNCHANGED << sessions, guestStorage, heap, connectionPool, conns, reqs >>
          /\ ( /\ sessions[s] = NoSession /\ Quiet
               /\ last'.route = "POST /upload-env" /\ last'.sid = s )
             => /\ ~last'.cached /\ last'.result = "pending"
                /\ conns[last'.conn] = NoConn
                /\ conns'[last'.conn].state = "connecting" ]_vars

\* C13 witness: A's logout has completed and released everything of A, a
\* further logout of A can be served, and the registry still holds B's live
\* entry for address X.
C13_Witness ==
    /\ LoggedOut(A) /\ ENABLED Logout(A)
    /\ sessions[A] = NoSession /\ guestStorage[A] = 0
    /\ \A i \in DOMAIN connectionPool : ~KeyOfSession(connectionPool[i].key, A)
    /\ LiveEntry(B \o <<":">> \o X, 2) /\ conns[1] = NoConn

\* an identity whose record is gone while something keyed by it is left
Expired(s) == sessions[s] = NoSession /\ ~FreshId(s)

\* C14: a session whose cookie lifetime has passed is unauthenticated. The
\* expiry removes the record and nothing else, so that requireAuth redirects
\* for it; and while an expired identity's resources are still there, every
\* protected route asked for without a session record is redirected and
\* touches neither the registry, the guest store nor any database.
C14_ExpiredIsUnauthenticated ==
    [][ /\ \A s \in SessionIds :
              last'.route = "expire" /\ last'.sid = s
              => /\ ~Authenticated(sessions'[s])
                 /\ requireAuth(sessions'[s]) = "redirect:/?error=upload_required"
                 /\ UNCHANGED << guestStorage, heap, connectionPool, conns, reqs, db >>
        /\ \A route \in Routes :
              /\ \E s \in SessionIds : Expired(s)
              /\ Quiet
              /\ last'.route = route
              /\ sessions[last'.sid] = NoSession
              => /\ last'.result = "redirect:/?error=upload_required"
                 /\ last'.conn = 0 /\ ~last'.cached
                 /\ UNCHANGED << sessions, connectionPool, conns, reqs, guestStorage, heap,
                                 db, PIPELINE_STATUS, timers >> ]_vars

C14_Witness ==
    /\ last.route = "GET /dashboard" /\ last.sid = B
    /\ last.result = "redirect:/?error=upload_required"
    /\ Expired(A) /\ \E h \in Handles : LiveEntry(A \o <<":">> \o X, h)

\* C15: what an abandoned session left behind is eventually reclaimed: once
\* an identity has expired without a logout, a later state holds no registry
\* entry and no guest dataset keyed by it.
C15_AbandonedReclaimed ==
    \A s \in SessionIds :
        Expired(s) ~> /\ guestStorage[s] = 0
                      /\ \A i \in DOMAIN connectionPool : ~KeyOfSession(connectionPool[i].key, s)

\* the results of a handler whose getConnection call threw, or has not returned
NoHandle == { "pending", "500", "redirect:/?error=db_connection_failed" }

\* a handler was handed a connection, and the connection is live
ReturnedLive == last.conn # 0 /\ last.result \notin NoHandle => conns[last.conn].state = "connected"

\* C16: in every state no two live (connected) connection objects exist for
\* one registry key, and the connection getConnection handed to a handler is
\* live.
C16_OneLiveHandlePerKey ==
    /\ \A h1, h2 \in Handles :
          h1 # h2 /\ conns[h1].key # EMPTY /\ conns[h1].key = conns[h2].key
          => conns[h1].state # "connected" \/ conns[h2].state # "connected"
    /\ ReturnedLive

\* the entries of a registry, as a set
Entries(pool) == { pool[i] : i \in DOMAIN pool }

\* C17: a getConnection call whose connection attempt fails reports the
\* failure to its handler, which answers with an error, and leaves no entry
\* for its key: the call removed at most the dead entry of its own key when
\* it started, the failing attempt caches nothing, and the entries of all
\* other keys are as they were.
C17_FailedConnectCachesNothing ==
    [][ /\ last'.result = "pending" /\ last'.conn # 0 /\ conns[last'.conn] = NoConn
           => /\ Entries(connectionPool') \subseteq Entries(connectionPool)
              /\ \A e \in Entries(connectionPool) \ Entries(connectionPool') :
                    e.key = conns'[last'.conn].key
        /\ \A r \in Slots :
              /\ reqs[r].pc = "connecting" /\ reqs'[r].pc = "idle"
              /\ conns'[reqs[r].conn].state # "connected"
              => /\ last'.sid = reqs[r].sid /\ last'.route = reqs[r].route
                 /\ last'.result \in { "500", "redirect:/?error=db_connection_failed" }
                 /\ PoolIndex(connectionPool', reqs[r].key) = 0
                 /\ \A e \in Entries(connectionPool') : e.conn # reqs[r].conn
                 /\ connectionPool' = connectionPool ]_vars

C17_Witness ==
    /\ last.route = "GET /deployments" /\ last.sid = A /\ last.result = "500"
    /\ PoolIndex(connectionPool, A \o <<":">> \o X) = 0
    /\ \E h \in Handles : LiveEntry(B \o <<":">> \o X, h)

\* C18: in every state every session record is consistent: a credentialed
\* record (isGuest false) holds a bundle whose MONGO_URI and API_KEY are not
\* empty, and a guest record (isGuest true) holds the shared guest defaults,
\* which carry no database address.
C18_ModeBundleConsistent ==
    \A s \in SessionIds :
        /\ sessions[s].isGuest = "false"
           => /\ sessions[s].config.defined
              /\ sessions[s].config.MONGO_URI # EMPTY
              /\ sessions[s].config.API_KEY # EMPTY
        /\ sessions[s].isGuest = "true"
           => /\ sessions[s].config = GUEST_CONFIG
              /\ sessions[s].config.MONGO_URI = EMPTY

\* C18 witness: a session that was a guest has uploaded credentials, while
\* another one is a guest.
C18_Witness ==
    /\ sessions[A].isGuest = "false" /\ guestStorage[A] # 0
    /\ sessions[A].config.MONGO_URI = X /\ sessions[A].config.API_KEY = <<"k1">>
    /\ sessions[B].isGuest = "true" /\ sessions[B].config = GUEST_CONFIG

\* the targets a run has reached when it stops: all of them, or those up to
\* the first one whose save fails
Reached(run) ==
    LET failing == { i \in DOMAIN run.order : run.order[i] \in run.saveFails }
        k == IF failing = {} THEN Len(run.order)
             ELSE CHOOSE i \in failing : \A j \in failing : i <= j
    IN  { run.order[i] : i \in 1 .. k }

\* C19: a call of checkServerHealth returns and never throws. Without a
\* connection in credentialed mode, and when the store cannot be read, it
\* returns the empty mapping; when the save of a target fails it returns the
\* entries built up to that target; when the log cannot be saved it returns
\* the whole mapping; a failed run appends no log entry.
C19_HealthCheckNeverThrows ==
    [][ last'.route = "checkServerHealth"
        => /\ last'.result = "returned"
           /\ ~last'.run.isGuest /\ last'.run.connection = EMPTY
              => last'.statuses = NoStatuses /\ db' = db
           /\ ~last'.run.isGuest /\ last'.run.connection # EMPTY /\ ~last'.run.find
              => last'.statuses = NoStatuses /\ db' = db
           /\ ~last'.run.isGuest /\ last'.run.connection # EMPTY /\ last'.run.find
              => /\ DOMAIN last'.statuses = Reached(last'.run)
                 /\ last'.run.saveFails # {} \/ ~last'.run.logSave
                    => db'[last'.run.connection].logs = db[last'.run.connection].logs ]_vars

\* C19 witness: the save of the first of two targets failed, and the call
\* returned the one entry it had built.
C19_Witness ==
    /\ last.route = "checkServerHealth" /\ last.result = "returned"
    /\ Len(last.run.order) = 2 /\ last.run.order[1] \in last.run.saveFails
    /\ DOMAIN last.statuses = { last.run.order[1] }

\* C20: in a run over a store that answers (the targets are read and every
\* target is saved), the mapping has an entry for every registered target,
\* Down for exactly the targets whose probe failed and Up for the others,
\* and the store holds the same statuses.
C20_FailingProbeSparesOthers ==
    [][ /\ last'.route = "checkServerHealth"
        /\ ~last'.run.isGuest /\ last'.run.connection # EMPTY
        /\ last'.run.find /\ last'.run.saveFails = {}
        => /\ DOMAIN last'.statuses = TargetNames(db[last'.run.connection])
           /\ \A n \in DOMAIN last'.statuses :
                 /\ last'.statuses[n].status = "Down" <=> ~last'.run.probe[n].ok
                 /\ last'.statuses[n].status = "Up" <=> last'.run.probe[n].ok
           /\ db'[last'.run.connection].servers =
                 { [ name |-> n, status |-> last'.statuses[n].status ] : n \in DOMAIN last'.statuses } ]_vars

\* C20 witness: the probe of the first of two targets failed and the second
\* target was checked and is Up.
C20_Witness ==
    /\ last.route = "checkServerHealth" /\ last.run.saveFails = {} /\ last.run.find
    /\ Len(last.run.order) = 2
    /\ ~last.run.probe[last.run.order[1]].ok
    /\ last.statuses[last.run.order[1]] = [ status |-> "Down", reason |-> "ECONNREFUSED" ]
    /\ last.statuses[last.run.order[2]] = [ status |-> "Up", reason |-> "OK 200" ]

\* the responses with status 403
Forbidden == GuestForbidden \cup { "403:Forbidden: Invalid API Key" }

\* C21: a tenant-write request whose x-api-key header differs from the API
\* key of its session is answered with 403 and changes no store, no timer,
\* no pipeline status and nothing in the registry.
C21_WritesNeedApiKey ==
    [][ \A route \in TenantWrites, apiKey \in Headers, body \in Bodies, up \in BOOLEAN :
          /\ last'.route = route
          /\ Authenticated(sessions[last'.sid])
          /\ apiKey # sessionApiKey(sessions[last'.sid])
          /\ Quiet
          /\ Route(last'.sid, route, apiKey, body, up)
          => /\ last'.result \in Forbidden
             /\ UNCHANGED << db, timers, PIPELINE_STATUS, connectionPool, conns, reqs >> ]_vars

\* no two targets of one store have the same name
UniqueNames(store) == \A x, y \in store.servers : x.name = y.name => x = y

\* C22: after every step the target names of every store are unique; a
\* POST /servers that reaches the store with a name that is already there
\* is answered with 409 and leaves every store as it was, and an add that
\* is answered with 201 has added one target whose name was not there.
C22_TargetNamesUnique ==
    [][ /\ \A a \in Addrs : UniqueNames(db'[a])
        /\ last'.route = "POST /servers" /\ last'.result = "409:Server with this name already exists"
           => UNCHANGED db
        /\ last'.route = "POST /servers" /\ last'.result = "201:Server added"
           => \E n \in Names :
                 /\ n \notin TargetNames(db[sessions[last'.sid].config.MONGO_URI])
                 /\ db' = [ db EXCEPT ![sessions[last'.sid].config.MONGO_URI].servers =
                                        @ \cup { [ name |-> n, status |-> "Unknown" ] } ]
        /\ \A body \in Names, apiKey \in Headers :
              /\ last'.route = "POST /servers" /\ last'.cached
              /\ Quiet
              /\ body \in TargetNames(db[sessions[last'.sid].config.MONGO_URI])
              /\ Route(last'.sid, "POST /servers", apiKey, body, TRUE)
              => last'.result \in Forbidden \cup { "409:Server with this name already exists" }
        /\ \A r \in Slots :
              /\ reqs[r].pc = "connecting" /\ reqs[r].route = "POST /servers"
              /\ reqs'[r].pc = "idle" /\ conns'[reqs[r].conn].state = "connected"
              /\ reqs[r].body \in TargetNames(db[reqs[r].uri])
              => last'.result = "409:Server with this name already exists" ]_vars

\* C22 witness: a target that has been checked (its status is Up) is added
\* again, and the add is answered with 409.
C22_Witness ==
    /\ last.route = "POST /servers" /\ last.result = "409:Server with this name already exists"
    /\ db[X].servers = { [ name |-> "svc1", status |-> "Up" ] }

\* what a guest's health check shows for the seeded targets
SeededStatuses ==
    [ n \in { "Demo Server 1", "Demo Server 2" } |->
        IF n = "Demo Server 1" THEN [ status |-> "Up", reason |-> "OK 200" ]
        ELSE [ status |-> "Down", reason |-> "Connection failed" ] ]

\* C23: the first getGuestData call for an identity stores a new object
\* that holds the seed, and no later step replaces or changes the stored
\* dataset while it is stored; a guest's dashboard read shows the two seeded
\* targets, Demo Server 1 Up and Demo Server 2 Down; a guest's add-target
\* request is answered with 403 and leaves the datasets as they were.
C23_GuestDatasetSeededOnce ==
    [][ /\ \A s \in SessionIds :
              /\ guestStorage[s] = 0 /\ guestStorage'[s] # 0
                 => /\ \A t \in SessionIds : guestStorage[t] # guestStorage'[s]
                    /\ heap'[guestStorage'[s]] = SeedDataset
              /\ guestStorage[s] # 0 /\ guestStorage'[s] # 0
                 => /\ guestStorage'[s] = guestStorage[s]
                    /\ heap'[guestStorage[s]] = heap[guestStorage[s]]
        /\ last'.route = "GET /dashboard" /\ sessions[last'.sid].isGuest = "true"
           => /\ last'.result = "200"
              /\ last'.statuses = SeededStatuses
              /\ Len(heap'[guestStorage'[last'.sid]].servers) = 2
        /\ last'.route = "POST /servers" /\ sessions[last'.sid].isGuest = "true"
           => /\ last'.result \in Forbidden
              /\ UNCHANGED << guestStorage, heap >> ]_vars

\* C23 witness: a guest reads the dashboard and sees the seeded targets,
\* from the dataset stored for its identity.
C23_Witness ==
    /\ last.route = "GET /dashboard" /\ last.result = "200"
    /\ sessions[last.sid].isGuest = "true"
    /\ last.statuses = SeededStatuses
    /\ heap[guestStorage[last.sid]] = SeedDataset

\* the deployment records of all stores, by address and position
Records == { p \in Addrs \X (1 .. MaxDeploys + 1) : p[2] \in DOMAIN db[p[1]].deployments }

\* a deploy answered with "Deployment triggered" has appended one record
\* with status in_progress, and no record moves from success to in_progress
DeployStepwise ==
    [][ /\ last'.route = "POST /deploy" /\ last'.result = "200:Deployment triggered"
           => \E a \in Addrs :
                 /\ db'[a].deployments = Append(db[a].deployments, "in_progress")
                 /\ PIPELINE_STATUS' = "in_progress"
        /\ \A a \in Addrs : \A i \in DOMAIN db[a].deployments :
              db[a].deployments[i] = "success" => db'[a].deployments[i] = "success" ]_vars

\* C25: POST /deploy stores a record with status in_progress and answers
\* with in_progress; no record moves back from success; and with the timers
\* firing, every record that is in_progress is success at some later time.
C25_DeployReachesSuccess ==
    /\ DeployStepwise
    /\ \A a \in Addrs, i \in 1 .. MaxDeploys + 1 :
          ( << a, i >> \in Records /\ db[a].deployments[i] = "in_progress" )
          ~> ( << a, i >> \in Records /\ db[a].deployments[i] = "success" )

\* C26: one run of the sweep removes exactly the registry entries whose
\* connection is not connected and closes their connections; every live
\* entry stays, with its connection as it was and in the order it had, and
\* the guest store, the datasets, the session records and the stores are
\* unchanged.
C26_SweepRemovesExactlyDead ==
    [][ last'.route = "setInterval"
        => /\ \A e \in Entries(connectionPool) :
                 IF conns[e.conn].state = "connected"
                 THEN e \in Entries(connectionPool') /\ conns'[e.conn] = conns[e.conn]
                 ELSE e \notin Entries(connectionPool')
                      /\ conns'[e.conn].state \in { "closed", "none" }
           /\ Entries(connectionPool') \subseteq Entries(connectionPool)
           /\ \A i, j \in DOMAIN connectionPool' :
                 i < j => PoolIndex(connectionPool, connectionPool'[i].key)
                          < PoolIndex(connectionPool, connectionPool'[j].key)
           /\ UNCHANGED << sessions, guestStorage, heap, db, PIPELINE_STATUS, timers >> ]_vars

\* C26 witness: a run of the sweep has evicted an entry and a live entry of
\* another key is still cached.
C26_Witness ==
    /\ last.route = "setInterval" /\ last.evicted # {}
    /\ \E e \in Entries(connectionPool) : conns[e.conn].state = "connected"

\* C27: in a run of the sweep in which the close of a dead entry is
\* rejected, every dead entry is removed all the same, and every other dead
\* entry's connection is closed.
C27_SweepSurvivesCloseFailure ==
    [][ \A F \in SUBSET Handles :
          /\ last'.route = "setInterval"
          /\ F # {}
          /\ SweepRun(F)
          => \A e \in Entries(connectionPool) :
                conns[e.conn].state # "connected"
                => /\ e \notin Entries(connectionPool')
                   /\ e.conn \notin F => conns'[e.conn].state \in { "closed", "none" } ]_vars

\* C27 witness: two dead entries were swept, the close of one was rejected
\* (its connection is still disconnected) and the registry is empty.
C27_Witness ==
    /\ last.route = "setInterval" /\ Cardinality(last.evicted) = 2
    /\ connectionPool = << >>
    /\ conns[1].state = "disconnected" /\ conns[2] = NoConn

\* C28: with handlers and the sweep interleaved in every order, a connection
\* handed to a handler is connected and is the one cached under its key,
\* and when it came from the cache it was so before the step; a run of the
\* sweep leaves alone every connection that a suspended getConnection call
\* is going to return.
C28_SweepNeverHandsOutClosed ==
    [][ /\ last'.conn # 0 /\ last'.result \notin NoHandle /\ last'.route # "GET /logout"
           => /\ conns'[last'.conn].state = "connected"
              /\ \E e \in Entries(connectionPool') : e.conn = last'.conn
              /\ last'.cached
                 => /\ conns[last'.conn].state = "connected"
                    /\ \E e \in Entries(connectionPool) : e.conn = last'.conn
        /\ last'.route = "setInterval"
           => \A r \in Slots :
                 reqs[r].pc = "connecting"
                 => /\ conns'[reqs[r].conn] = conns[reqs[r].conn]
                    /\ reqs'[r] = reqs[r] ]_vars

\* C28 witness: a run of the sweep has evicted an entry while a
\* getConnection call is suspended.
C28_Witness ==
    /\ last.route = "setInterval" /\ last.evicted # {}
    /\ \E r \in Slots : reqs[r].pc = "connecting" /\ conns[reqs[r].conn].state = "connecting"

\* C29: a credentialed checkServerHealth run in which the store answers every
\* call sets each target of the store of its connection to the status it
\* returns for it and appends exactly one log entry whose statuses are the
\* whole returned mapping, the other stores and the guest datasets being left
\* alone; a guest run changes no store and no dataset that exists already, and
\* returns the statuses of the seeded dataset.
C29_HealthRunWritesStatusesAndOneLog ==
    [][ last'.route = "checkServerHealth"
        => LET run == last'.run
               uri == run.connection
           IN  /\ ( ~run.isGuest /\ uri # EMPTY /\ run.find /\ run.saveFails = {} /\ run.logSave )
                  => /\ last'.result = "returned"
                     /\ DOMAIN last'.statuses = TargetNames(db[uri])
                     /\ TargetNames(db'[uri]) = TargetNames(db[uri])
                     /\ \A x \in db'[uri].servers : x.status = last'.statuses[x.name].status
                     /\ db'[uri].logs = Append(db[uri].logs, [ statuses |-> last'.statuses ])
                     /\ db'[uri].deployments = db[uri].deployments
                     /\ \A a \in Addrs \ { uri } : db'[a] = db[a]
                     /\ UNCHANGED << guestStorage, heap >>
               /\ run.isGuest
                  => /\ last'.result = "returned"
                     /\ UNCHANGED db
                     /\ guestStorage[last'.sid] # 0 => UNCHANGED << guestStorage, heap >>
                     /\ heap'[guestStorage'[last'.sid]] = SeedDataset
                     /\ last'.statuses = SeededStatuses ]_vars

\* a guest run has returned the seeded statuses, after a credentialed run over
\* two targets, one of them up and one down, that left its one log entry
C29_Witness ==
    /\ last.route = "checkServerHealth" /\ last.run.isGuest /\ last.statuses = SeededStatuses
    /\ Len(db[X].logs) = 1
    /\ DOMAIN db[X].logs[1].statuses = Targets
    /\ { db[X].logs[1].statuses[n].status : n \in Targets } = { "Up", "Down" }
    /\ \A x \in db[X].servers : x.status = db[X].logs[1].statuses[x.name].status

\* C30: the entry checkServerHealth returns for a target is Up with the
\* reason "OK 200" when its probe resolved; when the probe was rejected it is
\* Down, with the reason "HTTP <status> <status text>" of the response if the
\* error has one, else the error's code if it has one, else the error's
\* message if it has one, else "Connection failed".
C30_ProbeClassification ==
    [][ last'.route = "checkServerHealth" /\ ~last'.run.isGuest /\ last'.run.find
        => \A n \in DOMAIN last'.statuses :
              LET e == last'.run.probe[n]
                  entry == last'.statuses[n]
              IN  /\ e.ok => entry = [ status |-> "Up", reason |-> "OK 200" ]
                  /\ ~e.ok => entry.status = "Down"
                  /\ ( ~e.ok /\ e.response = [ status |-> 500, statusText |-> "Internal Server Error" ] )
                     => entry.reason = "HTTP 500 Internal Server Error"
                  /\ ( ~e.ok /\ e.response = [ status |-> 404, statusText |-> "" ] )
                     => entry.reason = "HTTP 404 "
                  /\ ( ~e.ok /\ e.response = NoResponse /\ e.code # "" )
                     => entry.reason = e.code
                  /\ ( ~e.ok /\ e.response = NoResponse /\ e.code = "" /\ e.message # "" )
                     => entry.reason = e.message
                  /\ ( ~e.ok /\ e.response = NoResponse /\ e.code = "" /\ e.message = "" )
                     => entry.reason = "Connection failed" ]_vars

\* a call has returned over two targets: one probe was rejected with a
\* response, a code and a message, the other with nothing at all
C30_Witness ==
    /\ last.route = "checkServerHealth" /\ ~last.run.isGuest /\ DOMAIN last.statuses = Targets
    /\ \E n \in Targets : /\ last.run.probe[n].response # NoResponse
                           /\ last.run.probe[n].code # ""
                           /\ last.run.probe[n].message # ""
                           /\ last.statuses[n].reason = "HTTP 500 Internal Server Error"
    /\ \E n \in Targets : /\ ~last.run.probe[n].ok
                           /\ last.run.probe[n].response = NoResponse
                           /\ last.run.probe[n].code = ""
                           /\ last.run.probe[n].message = ""
                           /\ last.statuses[n].reason = "Connection failed"

\* C31: health checks of one credentialed session that overlap all run to
\* completion. A call that is under way can always take its next step and no
\* step of one call changes what another call holds; a call ends only by
\* appending one log entry with its own mapping over every target, and no
\* entry already logged is changed or lost; a target's stored status changes
\* only by a save that writes, and after such a save it is the status that
\* save wrote, so after the calls it is the one written last.
C31_OverlappingChecksBothComplete ==
    /\ [](\A r \in Slots : reqs[r].pc = "probing"
              => ENABLED (HealthLogSave(r) \/ \E result \in ProbeResults : HealthSave(r, result, TRUE)))
    /\ [][ /\ \A r, q \in Slots : ( r # q /\ reqs'[r] # reqs[r] ) => reqs'[q] = reqs[q]
           /\ \A r \in Slots : ( reqs[r].pc = "probing" /\ reqs'[r].pc # "probing" )
                 => /\ DOMAIN reqs[r].statuses = TargetNames(db[X])
                    /\ db'[X].logs = Append(db[X].logs, [ statuses |-> reqs[r].statuses ])
                    /\ last'.statuses = reqs[r].statuses
           /\ Len(db'[X].logs) >= Len(db[X].logs)
           /\ SubSeq(db'[X].logs, 1, Len(db[X].logs)) = db[X].logs
           /\ ( last'.route = "server.save" /\ last'.result = "written" )
                 => \A n \in DOMAIN last'.statuses : \E x \in db'[X].servers :
                       x.name = n /\ x.status = last'.statuses[n].status
           /\ \A x \in db[X].servers : x \notin db'[X].servers
                 => /\ last'.route = "server.save" /\ last'.result = "written"
                    /\ x.name \in DOMAIN last'.statuses ]_vars

\* two calls have ended and left two log entries; the stored statuses are
\* those of neither entry, so the calls' saves interleaved
C31_Witness ==
    /\ Quiet /\ last.route = "checkServerHealth"
    /\ Len(db[X].logs) = 2
    /\ \A i \in 1 .. 2 : /\ DOMAIN db[X].logs[i].statuses = Targets
                         /\ \E x \in db[X].servers : x.status # db[X].logs[i].statuses[x.name].status

\* C32: a request of a session in guest mode to a protected route never
\* calls getConnection: it is handed no connection, cached or new, suspends
\* at no await, is not answered with the 500 of a failed getConnection, and
\* leaves the registry, the connection objects, the backing stores, the
\* timers and PIPELINE_STATUS unchanged.
C32_GuestNeverConnects ==
    [][ \A route \in Routes :
          /\ Quiet
          /\ last'.route = route
          /\ sessions[last'.sid].isGuest = "true"
          => /\ last'.conn = 0 /\ ~last'.cached
             /\ last'.result # "500"
             /\ UNCHANGED << connectionPool, conns, reqs, db, timers, PIPELINE_STATUS >> ]_vars

\* a guest session that was credentialed before, and whose live connection
\* is still cached under its identity, was served GET /status without it
C32_Witness ==
    /\ last.route = "GET /status" /\ last.result = "200" /\ last.conn = 0
    /\ sessions[last.sid].isGuest = "true"
    /\ \E i \in DOMAIN connectionPool :
          /\ KeyOfSession(connectionPool[i].key, last.sid)
          /\ conns[connectionPool[i].conn].state = "connected"

\* a data access is served over a connection opened for the address of the
\* bundle its session holds
ReuploadUsesCurrentAddress ==
    [][ \A route \in Routes :
          /\ last'.route = route
          /\ last'.conn # 0
          /\ last'.result # "500"
          => conns'[last'.conn].key = connectionKey(last'.sid, sessions[last'.sid].config.MONGO_URI) ]_vars

\* C33: when an upload of a credentialed session succeeds, the registry
\* holds no entry of that session for another address than the one of the
\* new bundle: the entry of the previous address has been removed.
C33_ReuploadReleasesPrevious ==
    [][ ( last'.route = "POST /upload-env" /\ last'.result = "redirect:/dashboard" )
        => \A i \in DOMAIN connectionPool' :
              KeyOfSession(connectionPool'[i].key, last'.sid)
              => connectionPool'[i].key
                   = connectionKey(last'.sid, sessions'[last'.sid].config.MONGO_URI) ]_vars

\* the characters of a string
Chars(str) == { str[i] : i \in DOMAIN str }

\* C34 as written: the separator of the key occurs in neither component
\* of any key that is built.
C34_SeparatorInNeitherComponent ==
    \A r \in Slots : reqs[r].pc = "key" => ":" \notin Chars(reqs[r].sid) \cup Chars(reqs[r].uri)

\* C34: connectionKey is injective. The separator does not occur in the
\* identity, and two calls that build the same key were given the same
\* identity and the same address, also when the address contains the
\* separator.
C34_KeysInjective ==
    \A r, q \in Slots :
        ( reqs[r].pc = "key" /\ reqs[q].pc = "key" )
        => /\ ":" \notin Chars(reqs[r].sid)
           /\ reqs[r].key = reqs[q].key => ( reqs[r].sid = reqs[q].sid /\ reqs[r].uri = reqs[q].uri )

\* two calls built keys for identities that share their first character and
\* for one address that contains the separator
C34_Witness ==
    \E r, q \in Slots :
        /\ reqs[r].pc = "key" /\ reqs[q].pc = "key"
        /\ reqs[r].sid # reqs[q].sid /\ reqs[r].sid[1] = reqs[q].sid[1]
        /\ reqs[r].uri = reqs[q].uri /\ ":" \in Chars(reqs[r].uri)
        /\ reqs[r].key # reqs[q].key

\* C35: once a session has logged out and none of its handlers is in
\* flight any more, the registry holds no entry built for it and no
\* connection created for it is open or being opened.
C35_LogoutLeavesNoConnection ==
    \A s \in SessionIds :
        ( sessions[s] = NoSession /\ ~InFlight(s) )
        => /\ \A i \in DOMAIN connectionPool : ~KeyOfSession(connectionPool[i].key, s)
           /\ \A h \in Handles : KeyOfSession(conns[h].key, s)
                                  => conns[h].state \notin { "connected", "connecting" }

\* C36: a handle that a step takes out of the registry, by deleting its
\* entry or by overwriting it, is not open after that step (it is closed,
\* being closed, or dead), and every connection that is connected is the
\* handle of a registry entry.
C36_NoHandleLeavesUnclosed ==
    /\ [][ \A i \in DOMAIN connectionPool :
              ( \A j \in DOMAIN connectionPool' : connectionPool'[j].conn # connectionPool[i].conn )
              => conns'[connectionPool[i].conn].state # "connected" ]_vars
    /\ [](\A h \in Handles :
            conns[h].state = "connected" => \E i \in DOMAIN connectionPool : connectionPool[i].conn = h)

\* C37: whenever a deployment record of any store is in_progress,
\* PIPELINE_STATUS is "in_progress".
C37_PipelineAgreesWithRecords ==
    ( \E a \in Addrs : \E i \in DOMAIN db[a].deployments : db[a].deployments[i] = "in_progress" )
    => PIPELINE_STATUS = "in_progress"

\* a POST /deploy that fails before it has a connection leaves
\* PIPELINE_STATUS as it was
FailedConnectKeepsPipeline ==
    [][ ( last'.route = "POST /deploy" /\ last'.result = "500" )
        => UNCHANGED << PIPELINE_STATUS, db, timers >> ]_vars

\* C38: whenever PIPELINE_STATUS is "in_progress" it is "success" again
\* later, also after a POST /deploy that was answered 500.
C38_PipelineReturnsToSuccess ==
    ( PIPELINE_STATUS = "in_progress" ) ~> ( PIPELINE_STATUS = "success" )

\* C39: the timer callback of a deployment ends without a rejected save,
\* whatever happened to the session's connection during the delay, and the
\* record it was set for is "success" when it has run.
C39_TimerSafeAgainstLogout ==
    [][ \A t \in timers :
          ( last'.route = "setTimeout" /\ timers' = timers \ { t } )
          => /\ last'.result # "rejected"
             /\ db'[t.uri].deployments[t.idx] = "success" ]_vars

====
